---- MODULE Spec2Model ----
(***************************************************************************)
(* DelayKiller Lite: the capture / apply / restore engine of               *)
(* src/DelayKillerLite.py and the network tools of src/delaykiller.py, as  *)
(* a state machine.                                                        *)
(*                                                                         *)
(* The state is the host the program tunes (the six TCP globals, the DNS   *)
(* configuration of every interface, the active power scheme, the MTU of   *)
(* every interface), whether the process runs elevated, the single-slot    *)
(* snapshot file backup.json, the interface selected in the GUI, and a     *)
(* history of the operations run so far: each entry holds the operation,   *)
(* its arguments, the host and the file as they were before it, the        *)
(* commands it issued in order, and what it returned.  For the functions   *)
(* studied on their own (the parsing of the probes, run_cmd, probe_mtu,    *)
(* dns_benchmark), `out` is what the function is given and `vals` what it  *)
(* makes of it.                                                            *)
(*                                                                         *)
(* Every handler is an operator from a world record to a world record, so  *)
(* that a handler calling another (apply_all, reset_all, the apply         *)
(* operations calling backup_settings and restore_from_backup) is the      *)
(* composition the code performs.  One action per handler runs it whole;   *)
(* the loop of probe_mtu takes one action per iteration.                   *)
(***************************************************************************)
EXTENDS Integers, Sequences, FiniteSets, TLC

VARIABLES win, admin, iface_var, tcp, dns, power, mtu, file, hist, out, vals

vars == <<win, admin, iface_var, tcp, dns, power, mtu, file, hist, out, vals>>

(***************************************************************************)
(* Bounds.                                                                 *)
(***************************************************************************)
\* operations per behaviour
MaxOps == 2
\* longest static DNS server list of a starting state
MaxServers == 3
\* operations per behaviour during which the environment misbehaves
MaxFaults == 1

(***************************************************************************)
(* Values.                                                                 *)
(***************************************************************************)
\* the six TCP globals, in the order of the `patterns` / `mapping` dicts
TcpFields ==
  <<"autotuninglevel", "ecncapability", "rss", "chimney",
    "congestionprovider", "timestamps">>

FieldSet == {TcpFields[i] : i \in 1..Len(TcpFields)}

HIGH_PERF_GUID == "8c5e7fda-e8bf-4a96-9a85-a6e23a8c635c"

BALANCED_GUID == "381b4222-f694-41f0-9685-ff5bb260df2e"

\* a power scheme of the host that is neither of the two the program knows
CustomGuid == "a1841308-3541-4fab-bc81-f71556f20b4a"

\* interfaces of the host
Ifaces == {"Ethernet", "Wi-Fi"}

\* the servers a DHCP lease hands out on this host
DhcpServers == <<"192.168.1.1">>

\* Python's None, and a key that is not in the dict
None == "NULL"

Missing == "MISSING"

\* `if v:` on an optional string
Truthy(v) == v \notin {None, Missing, ""}

(***************************************************************************)
(* Commands.  One record per command line handed to run_cmd / run_netsh,   *)
(* plus the write of the snapshot file: k is the kind, a the field or the  *)
(* interface, b the value, n the index.                                    *)
(***************************************************************************)
Cmd(k, a, b, n) == [k |-> k, a |-> a, b |-> b, n |-> n]

TcpSet(f, v) == Cmd("tcp_set", f, v, 0)

DnsDhcp(i) == Cmd("dns_dhcp", i, "", 0)

DnsStatic(i, s) == Cmd("dns_static", i, s, 0)

DnsAdd(i, s, n) == Cmd("dns_add", i, s, n)

FlushDns == Cmd("flush", "", "", 0)

PowerSet(g) == Cmd("power_set", "", g, 0)

ShowTcp == Cmd("show_tcp", "", "", 0)

ShowDns(i) == Cmd("show_dns", i, "", 0)

ShowPower == Cmd("show_power", "", "", 0)

SaveFile(outcome) == Cmd("save", "", outcome, 0)

\* src/delaykiller.py: `netsh interface ipv4 set subinterface "I" mtu=M store=persistent`
MtuSet(i, m) == Cmd("mtu_set", i, "", m)

\* `ping -f -l P -n 1 T`, the echo probe of probe_mtu
PingDf(target, payload) == Cmd("ping_df", target, "", payload)

\* `ping -n 3 -w 2000 S`, the echo probe of dns_benchmark
PingAvg(server) == Cmd("ping_avg", server, "", 0)

\* the four commands of repair_network_stack
RepairCmds ==
  <<Cmd("ip_reset", "", "", 0), Cmd("winsock_reset", "", "", 0),
    Cmd("release", "", "", 0), Cmd("renew", "", "", 0)>>

TcpKinds == {"tcp_set"}

DnsKinds == {"dns_dhcp", "dns_static", "dns_add"}

PowerKinds == {"power_set"}

RepairKinds == {"ip_reset", "winsock_reset", "release", "renew"}

MutatingKinds ==
  TcpKinds \cup DnsKinds \cup PowerKinds \cup {"flush", "mtu_set"} \cup RepairKinds

EchoKinds == {"ping_df", "ping_avg"}

ProbeKinds == {"show_tcp", "show_dns", "show_power"}

(***************************************************************************)
(* The host's utilities: what a command line does to the host.  On a host  *)
(* that is not Windows the utilities do not exist and nothing changes.     *)
(* A mutating command also changes nothing when the host refuses it: the   *)
(* process is not elevated, or the command exits non-zero or times out     *)
(* for a reason of its own (w.refuse).  The repair commands act on the     *)
(* network stack at the next boot, not on a value of the state.            *)
(***************************************************************************)
\* `netsh interface ipv4 add dns name=I S index=n`
AddServer(cfg, s, n) ==
  LET base == IF cfg.dhcp THEN <<>> ELSE cfg.servers
      has == \E j \in 1..Len(base) : base[j] = s
      at == IF n >= 1 /\ n <= Len(base) THEN n ELSE Len(base) + 1
  IN IF has
       THEN cfg
       ELSE [dhcp |-> FALSE,
             servers |-> SubSeq(base, 1, at - 1) \o <<s>> \o SubSeq(base, at, Len(base))]

\* the host carries out the mutating commands of this handler
Obeys(w) == w.win /\ w.admin /\ ~w.refuse

\* the exit code run_cmd returns for a mutating command
ExitCode(w) == IF Obeys(w) THEN 0 ELSE 1

Exec(w, c) ==
  IF ~Obeys(w) THEN w
  ELSE CASE c.k = "tcp_set" -> [w EXCEPT !.tcp[c.a] = c.b]
         [] c.k = "dns_dhcp" /\ c.a \in Ifaces ->
              [w EXCEPT !.dns[c.a] = [dhcp |-> TRUE, servers |-> DhcpServers]]
         [] c.k = "dns_static" /\ c.a \in Ifaces ->
              \* setting the primary clears the secondaries
              [w EXCEPT !.dns[c.a] = [dhcp |-> FALSE, servers |-> <<c.b>>]]
         [] c.k = "dns_add" /\ c.a \in Ifaces ->
              [w EXCEPT !.dns[c.a] = AddServer(w.dns[c.a], c.b, c.n)]
         [] c.k = "power_set" -> [w EXCEPT !.power = c.b]
         [] c.k = "mtu_set" /\ c.a \in Ifaces -> [w EXCEPT !.mtu[c.a] = c.n]
         [] OTHER -> w

\* run_cmd / run_netsh: the command acts on the host and is recorded
Run(w, c) == [Exec(w, c) EXCEPT !.trace = Append(w.trace, c)]

\* a caller that gives up at the first command the host refuses
RECURSIVE RunSeq_StopAtFailure(_, _)
RunSeq_StopAtFailure(w, cs) ==
  IF cs = <<>> THEN w
  ELSE IF ~Obeys(w) THEN Run(w, Head(cs))
  ELSE RunSeq_StopAtFailure(Run(w, Head(cs)), Tail(cs))

\* the return values are dropped: every command of the sequence is issued
RECURSIVE RunSeq(_, _)
RunSeq(w, cs) == IF cs = <<>> THEN w ELSE RunSeq(Run(w, Head(cs)), Tail(cs))

(***************************************************************************)
(* StateProbe.  `fault` is what goes wrong in the environment while the    *)
(* handler runs:                                                           *)
(*   "none"        nothing                                                 *)
(*   "probe_fail"  every query exits non-zero or prints nothing            *)
(*   "no_ecn"      the ECN line is missing from `show global`              *)
(*   "open_fail"   open(BACKUP_FILE, "w") raises: the file is untouched    *)
(*   "write_fail"  json.dump raises after open truncated the file          *)
(***************************************************************************)
Faults == {"none", "probe_fail", "no_ecn", "open_fail", "write_fail"}

LineMissing(f, fault) == fault = "no_ecn" /\ f = "ecncapability"

\* the exit code of a query
QueryCode(fault) == IF fault = "probe_fail" THEN 1 ELSE 0

\* the label of a field in `netsh interface tcp show global`: the first
\* alternative of the field's pattern
LongLabel(f) ==
  CASE f = "autotuninglevel" -> "Receive Window Auto-Tuning Level"
    [] f = "ecncapability" -> "ECN Capability"
    [] f = "rss" -> "Receive-Side Scaling State"
    [] f = "chimney" -> "Chimney Offload State"
    [] f = "congestionprovider" -> "Add-On Congestion Control Provider"
    [] OTHER -> "RFC 1323 Timestamps"

\* the fields whose pattern has a second alternative, the bare name of the
\* field: `(\brss\b\s*:\s*(.+))`
ShortForms == {"rss", "chimney", "timestamps"}

\* one line of output, `label : value`
Line(label, value) == [label |-> label, value |-> value]

\* the text of a line from its label to its end, blanks around it dropped
LineText(l) == l.label \o " : " \o l.value

\* the pattern of field f matches in line l
Matches(f, l) == l.label = LongLabel(f) \/ (f \in ShortForms /\ l.label = f)

\* re.search: the leftmost match, or 0 when the pattern matches nowhere
FirstMatch(f, lines) ==
  IF \E i \in 1..Len(lines) : Matches(f, lines[i])
    THEN CHOOSE i \in 1..Len(lines) :
           Matches(f, lines[i]) /\ \A j \in 1..(i - 1) : ~Matches(f, lines[j])
    ELSE 0

\* m.groups()[1:] for a match of field f's pattern in line l.  The long
\* alternative fills group 2; the short one fills group 3, the whole of
\* `name : value`, and group 4, the value.
Groups(f, l) ==
  IF l.label = LongLabel(f)
    THEN IF f \in ShortForms THEN <<l.value, None, None>> ELSE <<l.value>>
    ELSE <<None, LineText(l), l.value>>

\* for g in m.groups()[1:]: if g and g.strip(): vals[k] = g.strip(); break
FirstGroup(gs) ==
  IF \E i \in 1..Len(gs) : Truthy(gs[i])
    THEN gs[CHOOSE i \in 1..Len(gs) : Truthy(gs[i]) /\ \A j \in 1..(i - 1) : ~Truthy(gs[j])]
    ELSE Missing

\* one field of get_tcp_globals: None when the pattern finds no line
ParseField(f, lines) ==
  IF FirstMatch(f, lines) = 0 THEN None
  ELSE FirstGroup(Groups(f, lines[FirstMatch(f, lines)]))

\* get_tcp_globals from what run_netsh returned
TcpGlobalsOf(code, lines) ==
  IF code # 0 \/ lines = <<>>
    THEN [f \in FieldSet |-> Missing]
    ELSE [f \in FieldSet |-> ParseField(f, lines)]

\* the fields the host prints a line for
PrintedFields(fault) == SelectSeq(TcpFields, LAMBDA f : ~LineMissing(f, fault))

\* what `netsh interface tcp show global` prints on this host
ShowGlobal(w, fault) ==
  [i \in 1..Len(PrintedFields(fault)) |->
     Line(LongLabel(PrintedFields(fault)[i]), w.tcp[PrintedFields(fault)[i]])]

\* what get_tcp_globals returns
get_tcp_globals(w, fault) ==
  IF ~w.win THEN [f \in FieldSet |-> Missing]
  ELSE TcpGlobalsOf(QueryCode(fault), ShowGlobal(w, fault))

NoDns == [dhcp |-> FALSE, servers |-> <<>>]

\* the words the pattern \b(DHCP|dhcp)\b finds
DhcpTokens == {"DHCP", "dhcp"}

\* a word the pattern \b\d{1,3}(?:\.\d{1,3}){3}\b matches
DottedQuad(t) ==
  t \in {"1.1.1.1", "9.9.9.9", "8.8.8.8", "208.67.222.222", "8.8.4.4",
         "192.168.1.1", "999.1.1.1"}

\* a probe that collects the addresses only when it saw no DHCP token
DnsInfoOf_ServersUnlessDhcp(code, words) ==
  IF code # 0 \/ words = <<>> THEN NoDns
  ELSE IF \E i \in 1..Len(words) : words[i] \in DhcpTokens
    THEN [dhcp |-> TRUE, servers |-> <<>>]
    ELSE [dhcp |-> FALSE, servers |-> SelectSeq(words, DottedQuad)]

\* get_dns_info from what run_netsh returned, the output as its words
DnsInfoOf(code, words) ==
  IF code # 0 \/ words = <<>> THEN NoDns
  ELSE [dhcp |-> \E i \in 1..Len(words) : words[i] \in DhcpTokens,
        servers |-> SelectSeq(words, DottedQuad)]

\* what `netsh interface ipv4 show dns name=I` prints on this host
ShowDnsOutput(w, iface) ==
  (IF w.dns[iface].dhcp THEN <<"configured", "through", "DHCP">>
   ELSE <<"Statically", "Configured">>)
  \o w.dns[iface].servers

\* what get_dns_info returns
get_dns_info(w, iface, fault) ==
  IF ~w.win \/ iface \notin Ifaces THEN NoDns
  ELSE DnsInfoOf(QueryCode(fault), ShowDnsOutput(w, iface))

\* what get_active_power_guid returns
get_active_power_guid(w, fault) ==
  IF ~w.win \/ fault = "probe_fail" THEN None ELSE w.power

\* the queries the three probes run, in the order backup_settings calls them;
\* only get_active_power_guid runs its query on a host that is not Windows
ProbeCmds(w, name) ==
  IF w.win THEN <<ShowTcp, ShowDns(name), ShowPower>> ELSE <<ShowPower>>

(***************************************************************************)
(* SnapshotStore.  The file is absent, holds a document json.load rejects  *)
(* ("corrupt"), or holds the document backup_settings wrote: tcp_globals,  *)
(* the one dns entry (interface, dhcp, servers) and power.                 *)
(***************************************************************************)
NoData ==
  [tcp |-> [f \in FieldSet |-> Missing], iface |-> "", dhcp |-> FALSE,
   servers |-> <<>>, power |-> None]

Absent == [st |-> "absent", data |-> NoData]

Corrupt == [st |-> "corrupt", data |-> NoData]

Snapshot(d) == [st |-> "ok", data |-> d]

\* BACKUP_FILE.exists()
FileExists(w) == w.file.st # "absent"

\* json.load(f) succeeds
FileLoads(w) == w.file.st = "ok"

\* iface or iface_var.get()
BackupIface(w, iface) == IF iface # "" THEN iface ELSE w.iface_var

\* the document backup_settings builds from the three probes
ProbeData(w, name, fault) ==
  [tcp |-> get_tcp_globals(w, fault), iface |-> name,
   dhcp |-> get_dns_info(w, name, fault).dhcp,
   servers |-> get_dns_info(w, name, fault).servers,
   power |-> get_active_power_guid(w, fault)]

\* open(BACKUP_FILE, "w") and json.dump
WriteBackup(w, data, fault) ==
  CASE fault = "open_fail" -> Run(w, SaveFile("open_fail"))
    [] fault = "write_fail" -> [Run(w, SaveFile("write_fail")) EXCEPT !.file = Corrupt]
    [] OTHER -> [Run(w, SaveFile("ok")) EXCEPT !.file = Snapshot(data)]

\* the exception the body of backup_settings raises
BackupRaises(fault) ==
  IF fault \in {"open_fail", "write_fail"} THEN "OSError" ELSE "none"

\* an except clause that names OSError only
Caught_OSErrorOnly(exc) == exc = "OSError"

\* `except Exception as e`: the handler's clause catches exc
Caught(exc) == TRUE

\* what the caller gets when the body raised exc: False from the except
\* clause, or the exception itself
Handled(w, exc) ==
  [w |-> w, ret |-> FALSE, exc |-> IF Caught(exc) THEN "none" ELSE exc]

\* the two ways out of backup_settings, the body having left the world w
BackupReturn(w, fault) ==
  IF BackupRaises(fault) = "none" THEN [w |-> w, ret |-> TRUE, exc |-> "none"]
  ELSE Handled(w, BackupRaises(fault))

backup_settings(w, iface, fault) ==
  BackupReturn(WriteBackup(RunSeq(w, ProbeCmds(w, BackupIface(w, iface))),
                           ProbeData(w, BackupIface(w, iface), fault), fault),
               fault)

(***************************************************************************)
(* RestoreEngine.                                                          *)
(***************************************************************************)
\* a mapping that formats the key where the value belongs
RestoreTcpCmd_KeyForValue(f, v) == TcpSet(f, f)

\* the `mapping` lambdas: the value goes into the command line verbatim
RestoreTcpCmd(f, v) ==
  IF f = "timestamps" THEN TcpSet(f, IF Truthy(v) THEN v ELSE "enabled")
  ELSE TcpSet(f, v)

\* the loop without its `if v:`
RestoreTcpFields_All(t) == TcpFields

\* for k, v in tcp.items(): if v: run_netsh(mapping[k](v))
RestoreTcpFields(t) == SelectSeq(TcpFields, LAMBDA f : Truthy(t[f]))

RestoreTcpCmds(t) ==
  [i \in 1..Len(RestoreTcpFields(t)) |->
     RestoreTcpCmd(RestoreTcpFields(t)[i], t[RestoreTcpFields(t)[i]])]

\* the secondaries enumerated from 1 instead of 2
RestoreDnsCmds_IndexFromOne(name, dhcp, servers) ==
  IF name = "" THEN <<>>
  ELSE IF dhcp THEN <<DnsDhcp(name)>>
  ELSE IF servers # <<>>
    THEN <<DnsStatic(name, servers[1])>>
         \o [i \in 1..(Len(servers) - 1) |-> DnsAdd(name, servers[i + 1], i)]
    ELSE <<>>

\* the dns entry of restore_from_backup
RestoreDnsCmds(name, dhcp, servers) ==
  IF name = "" THEN <<>>
  ELSE IF dhcp THEN <<DnsDhcp(name)>>
  ELSE IF servers # <<>>
    THEN <<DnsStatic(name, servers[1])>>
         \o [i \in 1..(Len(servers) - 1) |-> DnsAdd(name, servers[i + 1], i + 1)]
    ELSE <<>>

RestorePowerCmds(p) == IF Truthy(p) THEN <<PowerSet(p)>> ELSE <<>>

\* every command restore_from_backup issues for the document d
RestoreCmds(d) ==
  RestoreTcpCmds(d.tcp) \o RestoreDnsCmds(d.iface, d.dhcp, d.servers)
  \o RestorePowerCmds(d.power)

\* a restore that removes the snapshot once it has replayed it
restore_from_backup_Consuming(w) ==
  IF ~FileExists(w) THEN [w |-> w, ret |-> FALSE, exc |-> "none"]
  ELSE IF ~FileLoads(w) THEN Handled(w, "JSONDecodeError")
  ELSE [w |-> [RunSeq(w, RestoreCmds(w.file.data)) EXCEPT !.file = Absent], ret |-> TRUE, exc |-> "none"]

\* restore_from_backup without its `if not BACKUP_FILE.exists()`
restore_from_backup_Unchecked(w) ==
  IF FileExists(w) /\ ~FileLoads(w) THEN Handled(w, "JSONDecodeError")
  ELSE [w |-> RunSeq(w, RestoreCmds(w.file.data)), ret |-> TRUE, exc |-> "none"]

restore_from_backup(w) ==
  IF ~FileExists(w) THEN [w |-> w, ret |-> FALSE, exc |-> "none"]
  ELSE IF ~FileLoads(w) THEN Handled(w, "JSONDecodeError")
  ELSE [w |-> RunSeq(w, RestoreCmds(w.file.data)), ret |-> TRUE, exc |-> "none"]

(***************************************************************************)
(* TweakApplier.  A handler returns the world it leaves, its status code   *)
(* and its message.                                                        *)
(***************************************************************************)
Result(w, code, msg) == [w |-> w, code |-> code, msg |-> msg]

\* the apply operation without its backup call
AutoBackup_Skipped(w, backup, iface, fault) == w

\* if backup: backup_settings()
AutoBackup(w, backup, iface, fault) ==
  IF backup THEN backup_settings(w, iface, fault).w ELSE w

TcpOnCmds ==
  <<TcpSet("autotuninglevel", "normal"), TcpSet("ecncapability", "enabled"),
    TcpSet("rss", "enabled"), TcpSet("chimney", "disabled")>>

TcpOffCmds ==
  <<TcpSet("autotuninglevel", "normal"), TcpSet("ecncapability", "default"),
    TcpSet("rss", "default"), TcpSet("chimney", "disabled")>>

\* the else branch without the return after a successful restore
TcpOff_NoReturn(r) == Result(RunSeq(r.w, TcpOffCmds), 0, "TCP tweaks applied")

\* the else branch of apply_tcp_tweaks, given what restore_from_backup returned
TcpOff(r) ==
  IF r.ret THEN Result(r.w, 0, "TCP tweaks restored from backup")
  ELSE Result(RunSeq(r.w, TcpOffCmds), 0, "TCP tweaks applied")

\* an on path that sets only the globals that differ from the profile
TcpTweaks_OnlyChanged(w, enable) ==
  IF enable
    THEN Result(RunSeq(w, SelectSeq(TcpOnCmds, LAMBDA c : w.tcp[c.a] # c.b)),
                0, "TCP tweaks applied")
  ELSE TcpOff(IF FileExists(w) THEN restore_from_backup(w)
              ELSE [w |-> w, ret |-> FALSE, exc |-> "none"])

\* apply_tcp_tweaks after its backup
TcpTweaks(w, enable) ==
  IF enable THEN Result(RunSeq(w, TcpOnCmds), 0, "TCP tweaks applied")
  ELSE TcpOff(IF FileExists(w) THEN restore_from_backup(w)
              ELSE [w |-> w, ret |-> FALSE, exc |-> "none"])

apply_tcp_tweaks(w, enable, backup, fault) ==
  IF ~w.win THEN Result(w, 1, "Unsupported")
  ELSE TcpTweaks(AutoBackup(w, backup, "", fault), enable)

LowLatencyOnCmds ==
  <<TcpSet("congestionprovider", "ctcp"), TcpSet("timestamps", "disabled")>>

LowLatencyOffCmds ==
  <<TcpSet("congestionprovider", "none"), TcpSet("timestamps", "enabled")>>

\* the off path of set_low_latency_mode when the file exists and loads
LowLatencyRestoreCmds(t) ==
  (IF Truthy(t["congestionprovider"])
     THEN <<TcpSet("congestionprovider", t["congestionprovider"])>> ELSE <<>>)
  \o (IF Truthy(t["timestamps"])
        THEN <<TcpSet("timestamps", t["timestamps"])>> ELSE <<>>)

\* set_low_latency_mode after its backup
LowLatency(w, enable) ==
  IF enable THEN Result(RunSeq(w, LowLatencyOnCmds), 0, "Low latency applied")
  ELSE IF FileExists(w)
    THEN IF ~FileLoads(w)
           THEN Result(w, 1, "json error")
           ELSE Result(RunSeq(w, LowLatencyRestoreCmds(w.file.data.tcp)),
                       0, "Low latency settings restored")
    ELSE Result(RunSeq(w, LowLatencyOffCmds), 0, "Low latency applied")

set_low_latency_mode(w, enable, backup, fault) ==
  IF ~w.win THEN Result(w, 1, "Unsupported")
  ELSE LowLatency(AutoBackup(w, backup, "", fault), enable)

DnsOnCmds(name) ==
  <<DnsStatic(name, "8.8.8.8"), DnsAdd(name, "8.8.4.4", 2), FlushDns>>

DnsOffCmds(name) == <<DnsDhcp(name), FlushDns>>

\* the off path looking at the server list before the dhcp flag
DnsModeRestoreCmds_ServersFirst(name, dhcp, servers) ==
  (IF servers # <<>>
     THEN <<DnsStatic(name, servers[1])>>
          \o [i \in 1..(Len(servers) - 1) |-> DnsAdd(name, servers[i + 1], i + 1)]
   ELSE IF dhcp THEN <<DnsDhcp(name)>>
   ELSE <<>>)
  \o <<FlushDns>>

\* the off path of apply_dns_mode for the entry data["dns"][name]
DnsModeRestoreCmds(name, dhcp, servers) ==
  (IF dhcp THEN <<DnsDhcp(name)>>
   ELSE IF servers # <<>>
     THEN <<DnsStatic(name, servers[1])>>
          \o [i \in 1..(Len(servers) - 1) |-> DnsAdd(name, servers[i + 1], i + 1)]
     ELSE <<>>)
  \o <<FlushDns>>

\* data.get("dns", {}).get(name) is an entry
HasDnsEntry(w, name) == w.file.data.iface = name

\* apply_dns_mode after its backup
DnsMode(w, enable, name) ==
  IF enable THEN Result(RunSeq(w, DnsOnCmds(name)), 0, "DNS mode applied")
  ELSE IF FileExists(w) /\ ~FileLoads(w) THEN Result(w, 1, "json error")
  ELSE IF FileExists(w) /\ HasDnsEntry(w, name)
    THEN Result(RunSeq(w, DnsModeRestoreCmds(name, w.file.data.dhcp,
                                             w.file.data.servers)),
                0, "DNS restored from backup")
  ELSE Result(RunSeq(w, DnsOffCmds(name)), 0, "DNS mode applied")

\* name = iface or "Ethernet"
DnsIface(iface) == IF iface # "" THEN iface ELSE "Ethernet"

apply_dns_mode(w, enable, iface, fault) ==
  IF ~w.win THEN Result(w, 1, "Unsupported")
  ELSE DnsMode(AutoBackup(w, TRUE, DnsIface(iface), fault), enable, DnsIface(iface))

PowerPlanGuid(high_perf) == IF high_perf THEN HIGH_PERF_GUID ELSE BALANCED_GUID

set_power_plan(w, high_perf, fault) ==
  IF ~w.win THEN Result(w, 1, "Unsupported")
  ELSE IF ExitCode(w) = 0
    THEN Result(Run(AutoBackup(w, TRUE, "", fault), PowerSet(PowerPlanGuid(high_perf))),
                0, "Power plan set")
  ELSE Result(Run(AutoBackup(w, TRUE, "", fault), PowerSet(PowerPlanGuid(high_perf))),
              1, "out")

(***************************************************************************)
(* Button handlers.                                                        *)
(***************************************************************************)
apply_all(w, low_latency, dns_on, power_high, fault) ==
  Result(set_power_plan(
           apply_dns_mode(
             set_low_latency_mode(
               apply_tcp_tweaks(backup_settings(w, w.iface_var, fault).w,
                                TRUE, FALSE, fault).w,
               low_latency, FALSE, fault).w,
             dns_on, w.iface_var, fault).w,
           power_high, fault).w,
         0, "Optimized Successfully")

\* the fallback of reset_all: apply safe defaults
ResetFallback(w, iface, fault) ==
  Result(set_power_plan(
           apply_dns_mode(
             set_low_latency_mode(
               apply_tcp_tweaks(w, FALSE, FALSE, fault).w,
               FALSE, FALSE, fault).w,
             FALSE, iface, fault).w,
           FALSE, fault).w,
         0, "Settings Reset")

\* reset_all, given what restore_from_backup returned
ResetAfter(r, iface, fault) ==
  IF r.ret THEN Result(r.w, 0, "Settings Restored from backup")
  ELSE ResetFallback(r.w, iface, fault)

reset_all(w, fault) ==
  ResetAfter(IF FileExists(w) THEN restore_from_backup(w) ELSE [w |-> w, ret |-> FALSE, exc |-> "none"],
             w.iface_var, fault)

(***************************************************************************)
(* The network tools of src/delaykiller.py that change the host: they      *)
(* check the platform, then the elevation, then run their commands.        *)
(***************************************************************************)
\* `code or c2`
CodeOr(code, c2) == IF code # 0 THEN code ELSE c2

set_dns_interface(w, adapter_name, primary, secondary) ==
  IF ~w.win THEN Result(w, 1, "Unsupported")
  ELSE IF ~w.admin THEN Result(w, 2, "Admin required")
  ELSE IF Truthy(secondary)
    THEN Result(RunSeq(w, <<DnsStatic(adapter_name, primary),
                            DnsAdd(adapter_name, secondary, 2)>>),
                CodeOr(ExitCode(w), ExitCode(w)), "out")
  ELSE Result(Run(w, DnsStatic(adapter_name, primary)), ExitCode(w), "out")

apply_mtu(w, adapter_name, m) ==
  IF ~w.win THEN Result(w, 1, "Unsupported")
  ELSE IF ~w.admin THEN Result(w, 2, "Admin required")
  ELSE Result(Run(w, MtuSet(adapter_name, m)), ExitCode(w), "out")

\* the status is 0 whatever the four commands returned
repair_network_stack(w) ==
  IF ~w.win THEN Result(w, 1, "Unsupported")
  ELSE IF ~w.admin THEN Result(w, 2, "Admin required")
  ELSE Result(RunSeq(w, RepairCmds), 0, "results")

(***************************************************************************)
(* What a query returned, and what a probe returned for it.                *)
(***************************************************************************)
Output(kind, code, lines, words) ==
  [kind |-> kind, code |-> code, lines |-> lines, words |-> words]

NoOutput == Output("none", 0, <<>>, <<>>)

Probed(op, t, d) == [op |-> op, tcp |-> t, dns |-> d]

Unread == Probed("none", [f \in FieldSet |-> Missing], NoDns)

(***************************************************************************)
(* Starting states: a host as the program may find it, and no snapshot     *)
(* file yet.                                                               *)
(***************************************************************************)
TcpRecord(at, ecn, rss, ch, cp, ts) ==
  [f \in FieldSet |->
     CASE f = "autotuninglevel" -> at
       [] f = "ecncapability" -> ecn
       [] f = "rss" -> rss
       [] f = "chimney" -> ch
       [] f = "congestionprovider" -> cp
       [] OTHER -> ts]

StartTcp ==
  { TcpRecord("normal", "disabled", "enabled", "disabled", "none", "disabled"),
    TcpRecord("disabled", "disabled", "disabled", "enabled", "default", "enabled") }

ServerPool == <<"1.1.1.1", "9.9.9.9", "8.8.8.8", "208.67.222.222", "8.8.4.4">>

StartDnsConfig ==
  {[dhcp |-> TRUE, servers |-> DhcpServers]}
  \cup {[dhcp |-> FALSE, servers |-> SubSeq(ServerPool, 1, n)] : n \in 0..MaxServers}

StartDns ==
  {[i \in Ifaces |-> IF i = "Ethernet" THEN e ELSE k] :
     e \in StartDnsConfig, k \in {[dhcp |-> TRUE, servers |-> DhcpServers]}}

StartPower == {BALANCED_GUID, CustomGuid}

\* every interface starts with the MTU of an Ethernet link
StartMtu == [i \in Ifaces |-> 1500]

\* the program as run_as_admin leaves it: elevated on Windows
Init ==
  /\ win \in BOOLEAN
  /\ iface_var \in Ifaces
  /\ tcp \in StartTcp
  /\ dns \in StartDns
  /\ power \in StartPower
  /\ win \/ (tcp = TcpRecord("normal", "disabled", "enabled", "disabled", "none", "disabled")
              /\ dns = [i \in Ifaces |-> [dhcp |-> TRUE, servers |-> DhcpServers]]
              /\ power = BALANCED_GUID /\ iface_var = "Ethernet")
  /\ admin = win
  /\ mtu = StartMtu
  /\ file = Absent
  /\ hist = <<>>
  /\ out = NoOutput
  /\ vals = Unread

(***************************************************************************)
(* Actions: one per handler.                                               *)
(***************************************************************************)
World ==
  [win |-> win, admin |-> admin, refuse |-> FALSE, iface_var |-> iface_var,
   tcp |-> tcp, dns |-> dns, power |-> power, mtu |-> mtu, file |-> file,
   trace |-> <<>>]

Host(w) == [tcp |-> w.tcp, dns |-> w.dns, power |-> w.power, mtu |-> w.mtu]

Call(op, a, b, c, i, fault) ==
  [op |-> op, a |-> a, b |-> b, c |-> c, iface |-> i, fault |-> fault]

FaultsUsed == Cardinality({n \in 1..Len(hist) : hist[n].call.fault # "none"})

\* the handler ran to its end: the world is what it left, the history has it
Step(call, r) ==
  /\ tcp' = r.w.tcp
  /\ dns' = r.w.dns
  /\ power' = r.w.power
  /\ mtu' = r.w.mtu
  /\ file' = r.w.file
  /\ hist' = Append(hist, [call |-> call, pre |-> Host(World), preFile |-> file,
                           trace |-> r.w.trace, code |-> r.code, msg |-> r.msg])
  /\ UNCHANGED <<win, admin, iface_var, out, vals>>

Done(call, r) ==
  /\ Len(hist) < MaxOps
  /\ call.fault = "none" \/ FaultsUsed < MaxFaults
  /\ Step(call, r)

BoolResult(r) ==
  IF r.exc # "none" THEN Result(r.w, 2, r.exc)
  ELSE Result(r.w, IF r.ret THEN 0 ELSE 1, IF r.ret THEN "True" ELSE "False")

BackupSettings ==
  \E i \in Ifaces \cup {""}, fault \in Faults :
    Done(Call("backup_settings", FALSE, FALSE, FALSE, i, fault),
         BoolResult(backup_settings(World, i, fault)))

RestoreFromBackup ==
  Done(Call("restore_from_backup", FALSE, FALSE, FALSE, "", "none"),
       BoolResult(restore_from_backup(World)))

ApplyTcpTweaks ==
  \E enable \in BOOLEAN, backup \in BOOLEAN :
    \E fault \in (IF backup THEN Faults ELSE {"none"}) :
      Done(Call("apply_tcp_tweaks", enable, backup, FALSE, "", fault),
           apply_tcp_tweaks(World, enable, backup, fault))

SetLowLatencyMode ==
  \E enable \in BOOLEAN, backup \in BOOLEAN :
    \E fault \in (IF backup THEN Faults ELSE {"none"}) :
      Done(Call("set_low_latency_mode", enable, backup, FALSE, "", fault),
           set_low_latency_mode(World, enable, backup, fault))

ApplyDnsMode ==
  \E enable \in BOOLEAN, i \in Ifaces, fault \in Faults :
    Done(Call("apply_dns_mode", enable, TRUE, FALSE, i, fault),
         apply_dns_mode(World, enable, i, fault))

SetPowerPlan ==
  \E high_perf \in BOOLEAN, fault \in Faults :
    Done(Call("set_power_plan", high_perf, TRUE, FALSE, "", fault),
         set_power_plan(World, high_perf, fault))

ApplyAll ==
  \E low_latency \in BOOLEAN, dns_on \in BOOLEAN, power_high \in BOOLEAN,
     fault \in Faults :
    Done(Call("apply_all", low_latency, dns_on, power_high, iface_var, fault),
         apply_all(World, low_latency, dns_on, power_high, fault))

ResetAll ==
  \E fault \in Faults :
    Done(Call("reset_all", FALSE, FALSE, FALSE, iface_var, fault),
         reset_all(World, fault))

Next ==
  \/ BackupSettings
  \/ RestoreFromBackup
  \/ ApplyTcpTweaks
  \/ SetLowLatencyMode
  \/ ApplyDnsMode
  \/ SetPowerPlan
  \/ ApplyAll
  \/ ResetAll

Spec == Init /\ [][Next]_vars

(***************************************************************************)
(* Refusal: the operations that change the host, run with or without       *)
(* elevation, on a host that may refuse the mutating commands of one       *)
(* operation (they exit non-zero or time out and change nothing).  A       *)
(* capture may come first, so that the restoring paths have a snapshot.    *)
(***************************************************************************)
\* is_admin() is False on a host that is not Windows
InitRefusal ==
  /\ win \in BOOLEAN
  /\ admin \in BOOLEAN
  /\ win \/ ~admin
  /\ iface_var = "Ethernet"
  /\ tcp \in StartTcp
  /\ dns \in {[i \in Ifaces |-> e] :
               e \in {[dhcp |-> TRUE, servers |-> DhcpServers],
                      [dhcp |-> FALSE, servers |-> SubSeq(ServerPool, 1, 2)]}}
  /\ power \in StartPower
  /\ win \/ (tcp = TcpRecord("normal", "disabled", "enabled", "disabled", "none", "disabled")
              /\ dns = [i \in Ifaces |-> [dhcp |-> TRUE, servers |-> DhcpServers]]
              /\ power = BALANCED_GUID)
  /\ mtu = StartMtu
  /\ file = Absent
  /\ hist = <<>>
  /\ out = NoOutput
  /\ vals = Unread

\* the world of a handler whose mutating commands the host refuses
Env(refuse) == [World EXCEPT !.refuse = refuse]

Refusal(refuse) == IF refuse THEN "cmd_fail" ELSE "none"

RefusalCapture ==
  /\ Len(hist) = 0
  /\ Step(Call("backup_settings", FALSE, FALSE, FALSE, "", "none"),
          BoolResult(backup_settings(World, "", "none")))

RefusalRestore ==
  \E refuse \in BOOLEAN :
    Done(Call("restore_from_backup", FALSE, FALSE, FALSE, "", Refusal(refuse)),
         BoolResult(restore_from_backup(Env(refuse))))

RefusalTcpTweaks ==
  \E enable \in BOOLEAN, backup \in BOOLEAN, refuse \in BOOLEAN :
    Done(Call("apply_tcp_tweaks", enable, backup, FALSE, "", Refusal(refuse)),
         apply_tcp_tweaks(Env(refuse), enable, backup, "none"))

RefusalLowLatency ==
  \E enable \in BOOLEAN, backup \in BOOLEAN, refuse \in BOOLEAN :
    Done(Call("set_low_latency_mode", enable, backup, FALSE, "", Refusal(refuse)),
         set_low_latency_mode(Env(refuse), enable, backup, "none"))

RefusalDnsMode ==
  \E enable \in BOOLEAN, i \in Ifaces, refuse \in BOOLEAN :
    Done(Call("apply_dns_mode", enable, TRUE, FALSE, i, Refusal(refuse)),
         apply_dns_mode(Env(refuse), enable, i, "none"))

RefusalPowerPlan ==
  \E high_perf \in BOOLEAN, refuse \in BOOLEAN :
    Done(Call("set_power_plan", high_perf, TRUE, FALSE, "", Refusal(refuse)),
         set_power_plan(Env(refuse), high_perf, "none"))

SetDnsInterface ==
  \E i \in Ifaces, primary \in {"1.1.1.1", "9.9.9.9"}, secondary \in {None, "8.8.8.8"},
     refuse \in BOOLEAN :
    Done(Call("set_dns_interface", primary, secondary, FALSE, i, Refusal(refuse)),
         set_dns_interface(Env(refuse), i, primary, secondary))

ApplyMtu ==
  \E i \in Ifaces, m \in {1200, 1480}, refuse \in BOOLEAN :
    Done(Call("apply_mtu", m, FALSE, FALSE, i, Refusal(refuse)),
         apply_mtu(Env(refuse), i, m))

RepairNetworkStack ==
  \E refuse \in BOOLEAN :
    Done(Call("repair_network_stack", FALSE, FALSE, FALSE, "", Refusal(refuse)),
         repair_network_stack(Env(refuse)))

NextRefusal ==
  \/ RefusalCapture
  \/ RefusalRestore
  \/ RefusalTcpTweaks
  \/ RefusalLowLatency
  \/ RefusalDnsMode
  \/ RefusalPowerPlan
  \/ SetDnsInterface
  \/ ApplyMtu
  \/ RepairNetworkStack

SpecRefusal == InitRefusal /\ [][NextRefusal]_vars

(***************************************************************************)
(* The round trip: a capture, then an apply operation with enable=false,   *)
(* then a restore, from every starting state.  The environment may drop    *)
(* the ECN line from a probe; the snapshot file itself reads and writes.   *)
(***************************************************************************)
ProbeDrift == {"none", "no_ecn"}

RoundTripCapture ==
  /\ Len(hist) = 0
  /\ \E i \in Ifaces \cup {""}, fault \in ProbeDrift :
       Step(Call("backup_settings", FALSE, FALSE, FALSE, i, fault),
            BoolResult(backup_settings(World, i, fault)))

RoundTripTcpOff ==
  /\ Len(hist) = 1
  /\ \E backup \in BOOLEAN :
       \E fault \in (IF backup THEN ProbeDrift ELSE {"none"}) :
         Step(Call("apply_tcp_tweaks", FALSE, backup, FALSE, "", fault),
              apply_tcp_tweaks(World, FALSE, backup, fault))

RoundTripLowLatencyOff ==
  /\ Len(hist) = 1
  /\ \E backup \in BOOLEAN :
       \E fault \in (IF backup THEN ProbeDrift ELSE {"none"}) :
         Step(Call("set_low_latency_mode", FALSE, backup, FALSE, "", fault),
              set_low_latency_mode(World, FALSE, backup, fault))

RoundTripDnsOff ==
  /\ Len(hist) = 1
  /\ \E i \in Ifaces, fault \in ProbeDrift :
       Step(Call("apply_dns_mode", FALSE, TRUE, FALSE, i, fault),
            apply_dns_mode(World, FALSE, i, fault))

RoundTripPowerOff ==
  /\ Len(hist) = 1
  /\ \E fault \in ProbeDrift :
       Step(Call("set_power_plan", FALSE, TRUE, FALSE, "", fault),
            set_power_plan(World, FALSE, fault))

RoundTripRestore ==
  /\ Len(hist) = 2
  /\ Step(Call("restore_from_backup", FALSE, FALSE, FALSE, "", "none"),
          BoolResult(restore_from_backup(World)))

RoundTripNext ==
  \/ RoundTripCapture
  \/ RoundTripTcpOff
  \/ RoundTripLowLatencyOff
  \/ RoundTripDnsOff
  \/ RoundTripPowerOff
  \/ RoundTripRestore

SpecRoundTrip == Init /\ [][RoundTripNext]_vars

(***************************************************************************)
(* Restoring twice: a capture, then an operation that changes the host,    *)
(* then restore_from_backup two times in a row.  The capture may fail in   *)
(* any way.                                                                *)
(***************************************************************************)
RestoreTwiceCapture ==
  /\ Len(hist) = 0
  /\ \E i \in Ifaces \cup {""}, fault \in Faults :
       Step(Call("backup_settings", FALSE, FALSE, FALSE, i, fault),
            BoolResult(backup_settings(World, i, fault)))

RestoreTwiceTcp ==
  /\ Len(hist) = 1
  /\ \E enable \in BOOLEAN, backup \in BOOLEAN :
       Step(Call("apply_tcp_tweaks", enable, backup, FALSE, "", "none"),
            apply_tcp_tweaks(World, enable, backup, "none"))

RestoreTwiceLowLatency ==
  /\ Len(hist) = 1
  /\ \E backup \in BOOLEAN :
       Step(Call("set_low_latency_mode", TRUE, backup, FALSE, "", "none"),
            set_low_latency_mode(World, TRUE, backup, "none"))

RestoreTwiceDns ==
  /\ Len(hist) = 1
  /\ \E i \in Ifaces :
       Step(Call("apply_dns_mode", TRUE, TRUE, FALSE, i, "none"),
            apply_dns_mode(World, TRUE, i, "none"))

RestoreTwicePower ==
  /\ Len(hist) = 1
  /\ Step(Call("set_power_plan", TRUE, TRUE, FALSE, "", "none"),
          set_power_plan(World, TRUE, "none"))

RestoreTwiceRestore ==
  /\ Len(hist) \in {2, 3}
  /\ Step(Call("restore_from_backup", FALSE, FALSE, FALSE, "", "none"),
          BoolResult(restore_from_backup(World)))

RestoreTwiceNext ==
  \/ RestoreTwiceCapture
  \/ RestoreTwiceTcp
  \/ RestoreTwiceLowLatency
  \/ RestoreTwiceDns
  \/ RestoreTwicePower
  \/ RestoreTwiceRestore

SpecRestoreTwice == Init /\ [][RestoreTwiceNext]_vars

(***************************************************************************)
(* The probes on their own: get_tcp_globals and get_dns_info applied to    *)
(* what the query returned.  The TCP output holds, for each field in the   *)
(* order netsh prints them, no line, the line in its long phrasing or,     *)
(* where the pattern accepts one, the line in its short phrasing; lines of *)
(* other content may come first.  The DNS output is a few words.           *)
(***************************************************************************)
\* lines printed ahead of the fields' own lines
MaxExtra == 1
\* words of a DNS query's output
MaxWords == 3

SeqsUpTo(S, n) == UNION {[1..k -> S] : k \in 0..n}

\* the value the output shows for a field
Printed(f) ==
  CASE f = "autotuninglevel" -> "normal"
    [] f = "ecncapability" -> "disabled"
    [] f = "rss" -> "enabled"
    [] f = "chimney" -> "automatic"
    [] f = "congestionprovider" -> "ctcp"
    [] OTHER -> "allowed"

\* the ways a field shows in the output: not at all, long, short
FieldLines(f) ==
  {<<>>, <<Line(LongLabel(f), Printed(f))>>}
  \cup (IF f \in ShortForms THEN {<<Line(f, Printed(f))>>} ELSE {})

\* lines ahead of the fields: a banner, or an earlier line about a field
ExtraLines ==
  {Line("TCP Global Parameters", "")}
  \cup {Line(LongLabel(f), "default") : f \in ShortForms}
  \cup {Line(f, "default") : f \in ShortForms}

TcpOutputs ==
  {e \o a \o b \o c \o d \o g \o h :
     e \in SeqsUpTo(ExtraLines, MaxExtra),
     a \in FieldLines("autotuninglevel"), b \in FieldLines("ecncapability"),
     c \in FieldLines("rss"), d \in FieldLines("chimney"),
     g \in FieldLines("congestionprovider"), h \in FieldLines("timestamps")}

DnsWords == {"DHCP", "dhcp", "Dhcp", "Configured", "8.8.8.8", "8.8.4.4", "1.2.3"}

ProbeInputs ==
  {Output("tcp", c, t, <<>>) : c \in {0, 1}, t \in TcpOutputs}
  \cup {Output("dns", c, <<>>, k) : c \in {0, 1}, k \in SeqsUpTo(DnsWords, MaxWords)}

InitParse ==
  /\ win = TRUE
  /\ iface_var = "Ethernet"
  /\ tcp = TcpRecord("normal", "disabled", "enabled", "disabled", "none", "disabled")
  /\ dns = [i \in Ifaces |-> [dhcp |-> TRUE, servers |-> DhcpServers]]
  /\ power = BALANCED_GUID
  /\ admin = TRUE
  /\ mtu = StartMtu
  /\ file = Absent
  /\ hist = <<>>
  /\ out \in ProbeInputs
  /\ vals = Unread

GetTcpGlobals ==
  /\ out.kind = "tcp" /\ vals = Unread
  /\ vals' = Probed("get_tcp_globals", TcpGlobalsOf(out.code, out.lines), NoDns)
  /\ UNCHANGED <<win, admin, iface_var, tcp, dns, power, mtu, file, hist, out>>

GetDnsInfo ==
  /\ out.kind = "dns" /\ vals = Unread
  /\ vals' = Probed("get_dns_info", [f \in FieldSet |-> Missing],
                    DnsInfoOf(out.code, out.words))
  /\ UNCHANGED <<win, admin, iface_var, tcp, dns, power, mtu, file, hist, out>>

NextParse ==
  \/ GetTcpGlobals
  \/ GetDnsInfo

SpecParse == InitParse /\ [][NextParse]_vars

(***************************************************************************)
(* run_cmd on its own, in both files: what it returns for what became of   *)
(* the child process.  A text is a sequence of characters, " " the blank.  *)
(* The child exits with a code and two streams, or outlives the timeout,   *)
(* or cannot be started (the exception carries a message).                 *)
(***************************************************************************)
\* longest text of a stream
MaxText == 2

Chars == {" ", "x"}

RECURSIVE LStrip(_)
LStrip(t) == IF t # <<>> /\ Head(t) = " " THEN LStrip(Tail(t)) ELSE t

RECURSIVE RStrip(_)
RStrip(t) ==
  IF t # <<>> /\ t[Len(t)] = " " THEN RStrip(SubSeq(t, 1, Len(t) - 1)) ELSE t

\* str.strip()
Strip(t) == RStrip(LStrip(t))

Proc(kind, code, stdout, stderr, message) ==
  [kind |-> kind, code |-> code, stdout |-> stdout, stderr |-> stderr,
   message |-> message]

Returned(code, text) == [code |-> code, out |-> text, raised |-> FALSE]

\* `if not out and proc.stderr: out = proc.stderr.strip()`
StdoutOrStderr(o, stderr) == IF o = <<>> /\ stderr # <<>> THEN Strip(stderr) ELSE o

\* run_cmd of DelayKillerLite.py
run_cmd(p) ==
  CASE p.kind = "exit" -> Returned(p.code, StdoutOrStderr(Strip(p.stdout), p.stderr))
    [] p.kind = "timeout" -> Returned(124, <<>>)
    [] OTHER -> Returned(1, p.message)

\* run_cmd of delaykiller.py: stderr goes to the same pipe as stdout
delaykiller_run_cmd(p) ==
  CASE p.kind = "exit" -> Returned(p.code, Strip(p.stdout \o p.stderr))
    [] p.kind = "timeout" -> Returned(1, <<"Timed", " ", "out">>)
    [] OTHER -> Returned(1, p.message)

Children ==
  {Proc("exit", c, so, se, <<>>) :
     c \in {0, 1, 2, 124}, so \in SeqsUpTo(Chars, MaxText), se \in SeqsUpTo(Chars, MaxText)}
  \cup {Proc("timeout", 0, so, <<>>, <<>>) : so \in SeqsUpTo(Chars, MaxText)}
  \cup {Proc("error", 0, <<>>, <<>>, m) : m \in {<<>>, <<"x">>, <<"x", " ", "x">>}}

InitRunCmd ==
  /\ win \in BOOLEAN
  /\ admin = win
  /\ iface_var = "Ethernet"
  /\ tcp = TcpRecord("normal", "disabled", "enabled", "disabled", "none", "disabled")
  /\ dns = [i \in Ifaces |-> [dhcp |-> TRUE, servers |-> DhcpServers]]
  /\ power = BALANCED_GUID
  /\ mtu = StartMtu
  /\ file = Absent
  /\ hist = <<>>
  /\ out \in Children
  /\ vals = Unread

RunCmdLite ==
  /\ vals = Unread
  /\ vals' = [op |-> "DelayKillerLite.run_cmd", ret |-> run_cmd(out)]
  /\ UNCHANGED <<win, admin, iface_var, tcp, dns, power, mtu, file, hist, out>>

RunCmd ==
  /\ vals = Unread
  /\ vals' = [op |-> "delaykiller.run_cmd", ret |-> delaykiller_run_cmd(out)]
  /\ UNCHANGED <<win, admin, iface_var, tcp, dns, power, mtu, file, hist, out>>

NextRunCmd ==
  \/ RunCmdLite
  \/ RunCmd

SpecRunCmd == InitRunCmd /\ [][NextRunCmd]_vars

(***************************************************************************)
(* NetworkProbe: probe_mtu and dns_benchmark of src/delaykiller.py.        *)
(* probe_mtu is a loop, one action per iteration; `vals` holds its local   *)
(* variables, the commands issued so far, and the host and the file as     *)
(* they were at the call.  `out` is the network the probes run against:    *)
(* for probe_mtu a responder, which answers an echo request when the       *)
(* payload fits its limit and the request is not lost, and otherwise in    *)
(* the way `miss` says; for dns_benchmark the servers and what ping        *)
(* printed for each.  Every echo probe returns within run_cmd's timeout,   *)
(* so the loop is scheduled fairly.                                        *)
(***************************************************************************)
\* start=1500
MtuStart == 1500

\* min_mtu=1200
MtuFloor == 1200

\* step = 10
MtuStep == 10

\* payload = mtu - 28
EchoOverhead == 28

\* iterations of the loop in one behaviour
MaxProbes == 40

\* servers of one benchmark
MaxBench == 2

\* Python's None where the value is otherwise a number that is not negative
NoInt == -1

Target == "8.8.8.8"

\* a payload as large as the candidate itself
Payload_NoOverhead(m) == m

Payload(m) == m - EchoOverhead

\* the candidates from the ceiling to the floor
Candidates == {m \in MtuFloor..MtuStart : (MtuStart - m) % MtuStep = 0}

\* what run_cmd returned for an echo probe: the exit code, "Reply" in out
Echo(code, reply) == [code |-> code, reply |-> reply]

Responders ==
  {[kind |-> "mtu", limit |-> l, lost |-> x, miss |-> m] :
     l \in {0} \cup {Payload(c) : c \in Candidates},
     x \in SUBSET {Payload(MtuStart), Payload(MtuStart - 2 * MtuStep), Payload(MtuFloor)},
     m \in {Echo(1, FALSE), Echo(0, FALSE), Echo(1, TRUE)}}

\* the responder's answer to `ping -f -l payload -n 1 target`
Answer(r, payload) ==
  IF payload <= r.limit /\ payload \notin r.lost THEN Echo(0, TRUE) ELSE r.miss

\* `if code == 0 and "Reply" in out`
Success(a) == a.code = 0 /\ a.reply

\* an iteration that also sets the interface to the candidate it probes
ProbeMtuCmds_Apply(target, m) == <<PingDf(target, Payload(m)), MtuSet("Ethernet", m)>>

\* the commands of one iteration
ProbeMtuCmds(target, m) == <<PingDf(target, Payload(m))>>

\* a loop whose step is zero
Descend_Stuck(m) == m

\* mtu -= step
Descend(m) == m - MtuStep

\* a loop that notes the candidate and goes on descending
AfterProbe_NoBreak(l, a, tr) ==
  IF Success(a)
    THEN [l EXCEPT !.last_good = l.mtu, !.mtu = Descend(l.mtu), !.trace = @ \o tr]
  ELSE [l EXCEPT !.mtu = Descend(l.mtu), !.trace = @ \o tr]

\* the body of the loop after run_cmd returned a
AfterProbe(l, a, tr) ==
  IF Success(a)
    THEN [l EXCEPT !.last_good = l.mtu, !.pc = "return", !.trace = @ \o tr]
  ELSE [l EXCEPT !.mtu = Descend(l.mtu), !.trace = @ \o tr]

\* the local state of a probe
Locals(op, pc, m, ret) ==
  [op |-> op, pc |-> pc, mtu |-> m, last_good |-> NoInt, ret |-> ret, trace |-> <<>>,
   pre |-> Host(World), preFile |-> file]

\* a line of ping's output, as its tokens
StatsLine(v) ==
  <<"Minimum", " ", "=", " ", "1", "ms", ",", " ", "Average", " ", "=", " ">> \o v

PingOutputs ==
  { <<<<"Timed", " ", "out">>>>,
    <<<<"Reply", " ", "from">>, StatsLine(<<"1", "2", "ms">>)>>,
    <<<<"Reply", " ", "from">>, StatsLine(<<"0", "ms">>)>>,
    <<<<"Request", " ", "timed", " ", "out">>, <<"Lost", " ", "=", " ", "3">>>>,
    <<StatsLine(<<"n/a">>)>>,
    <<<<"Average", " ", "latency">>>>,
    <<StatsLine(<<"1", "2", "ms">>), StatsLine(<<"n/a">>)>> }

BenchServers == {"1.1.1.1", "8.8.8.8"}

Benchmarks ==
  UNION {{[kind |-> "bench", servers |-> sv, outputs |-> ou] :
            sv \in [1..k -> BenchServers], ou \in [1..k -> PingOutputs]} :
         k \in 0..MaxBench}

\* line.replace(" ", "")
NoBlanks(line) == SelectSeq(line, LAMBDA t : t # " ")

\* line.split("=")[-1]: what follows the last "="
RECURSIVE LastPart(_)
LastPart(line) ==
  IF line = <<>> \/ line[Len(line)] = "=" THEN <<>>
  ELSE Append(LastPart(SubSeq(line, 1, Len(line) - 1)), line[Len(line)])

\* .replace("ms", "")
NoMs(part) == SelectSeq(part, LAMBDA t : t # "ms")

Digits == {"0", "1", "2"}

Digit(t) == CASE t = "0" -> 0 [] t = "1" -> 1 [] OTHER -> 2

RECURSIVE Decimal(_)
Decimal(part) ==
  IF part = <<>> THEN 0
  ELSE 10 * Decimal(SubSeq(part, 1, Len(part) - 1)) + Digit(part[Len(part)])

\* int(...) inside try / except: None when the text is no number
IntOrNone(part) ==
  IF part # <<>> /\ \A j \in 1..Len(part) : part[j] \in Digits
    THEN Decimal(part)
  ELSE NoInt

\* `"Average =" in line or "Average" in line`
HasAverage(line) == \E j \in 1..Len(line) : line[j] = "Average"

\* the loop over out.splitlines(): the last line with "Average" decides
RECURSIVE AverageOf(_, _)
AverageOf(lines, avg) ==
  IF lines = <<>> THEN avg
  ELSE AverageOf(Tail(lines),
                 IF HasAverage(Head(lines))
                   THEN IntOrNone(NoMs(LastPart(NoBlanks(Head(lines)))))
                 ELSE avg)

\* a loop that starts from 0
PingAverage_FromZero(lines) == AverageOf(lines, 0)

\* avg = None, then the loop
PingAverage(lines) == AverageOf(lines, NoInt)

\* results[s] = v
Put(results, s, v) ==
  [x \in DOMAIN results \cup {s} |-> IF x = s THEN v ELSE results[x]]

\* the loop of dns_benchmark on Windows
RECURSIVE BenchmarkLoop(_, _, _, _)
BenchmarkLoop(w, servers, outputs, results) ==
  IF servers = <<>> THEN [w |-> w, ret |-> results]
  ELSE BenchmarkLoop(Run(w, PingAvg(Head(servers))), Tail(servers), Tail(outputs),
                     Put(results, Head(servers), PingAverage(Head(outputs))))

dns_benchmark(w, servers, outputs) ==
  IF ~w.win
    THEN [w |-> w, ret |-> [x \in {servers[j] : j \in 1..Len(servers)} |-> NoInt]]
  ELSE BenchmarkLoop(w, servers, outputs, <<>>)

InitProbe ==
  /\ win \in BOOLEAN
  /\ admin = win
  /\ iface_var = "Ethernet"
  /\ tcp = TcpRecord("normal", "disabled", "enabled", "disabled", "none", "disabled")
  /\ dns = [i \in Ifaces |-> [dhcp |-> TRUE, servers |-> DhcpServers]]
  /\ power = BALANCED_GUID
  /\ mtu = StartMtu
  /\ file \in {Absent, Snapshot([NoData EXCEPT !.iface = "Ethernet", !.dhcp = TRUE,
                                                !.power = BALANCED_GUID])}
  /\ hist = <<>>
  /\ out \in Responders \cup Benchmarks
  /\ vals = Unread

\* the effect on the host of the commands a probe ran
Ran(w) ==
  /\ tcp' = w.tcp
  /\ dns' = w.dns
  /\ power' = w.power
  /\ mtu' = w.mtu
  /\ file' = w.file
  /\ UNCHANGED <<win, admin, iface_var, hist, out>>

\* the call of probe_mtu, up to the loop
ProbeMtuCall ==
  /\ out.kind = "mtu" /\ vals = Unread
  /\ vals' = IF win THEN Locals("probe_mtu", "while", MtuStart, NoInt)
             ELSE Locals("probe_mtu", "done", MtuStart, NoInt)
  /\ Ran(World)

\* one iteration: the test, the echo probe, and what follows it
ProbeMtuIterate ==
  /\ vals.op = "probe_mtu" /\ vals.pc = "while"
  /\ Len(vals.trace) < MaxProbes
  /\ IF vals.mtu >= MtuFloor
       THEN /\ vals' = AfterProbe(vals, Answer(out, Payload(vals.mtu)),
                                  ProbeMtuCmds(Target, vals.mtu))
            /\ Ran(RunSeq(World, ProbeMtuCmds(Target, vals.mtu)))
     ELSE /\ vals' = [vals EXCEPT !.pc = "return"]
          /\ Ran(World)

\* return last_good
ProbeMtuReturn ==
  /\ vals.op = "probe_mtu" /\ vals.pc = "return"
  /\ vals' = [vals EXCEPT !.pc = "done", !.ret = vals.last_good]
  /\ Ran(World)

DnsBenchmark ==
  /\ out.kind = "bench" /\ vals = Unread
  /\ vals' = [Locals("dns_benchmark", "done", 0,
                     dns_benchmark(World, out.servers, out.outputs).ret)
               EXCEPT !.trace = dns_benchmark(World, out.servers, out.outputs).w.trace]
  /\ Ran(dns_benchmark(World, out.servers, out.outputs).w)

NextProbe ==
  \/ ProbeMtuCall
  \/ ProbeMtuIterate
  \/ ProbeMtuReturn
  \/ DnsBenchmark

SpecProbe == InitProbe /\ [][NextProbe]_vars /\ WF_vars(NextProbe)

(***************************************************************************)
(* Two workers: apply_tcp_tweaks(enable) and set_power_plan(high_perf),    *)
(* each on a thread of its own, on Windows.  A worker runs its three       *)
(* probes, opens the snapshot file for writing (which empties it), dumps   *)
(* the document, and issues its commands; the steps of the two workers     *)
(* interleave in any order, one worker running to its end before the       *)
(* other starts being two of the orders.  `out` holds the arguments and    *)
(* the host as it was before either worker started, `vals` each worker's   *)
(* position and the document it probed.                                    *)
(***************************************************************************)
Worker(pc, data) == [pc |-> pc, data |-> data]

Workers(t, p) == [op |-> "workers", tcp |-> t, power |-> p]

InitWorkers ==
  /\ win = TRUE
  /\ admin = TRUE
  /\ iface_var = "Ethernet"
  /\ tcp \in StartTcp
  /\ dns \in StartDns
  /\ power \in StartPower
  /\ mtu = StartMtu
  /\ file = Absent
  /\ hist = <<>>
  /\ out \in {[kind |-> "workers", enable |-> e, high_perf |-> h,
                pre |-> [tcp |-> tcp, dns |-> dns, power |-> power, mtu |-> mtu]] :
               e \in BOOLEAN, h \in BOOLEAN}
  /\ vals = Workers(Worker("probe", NoData), Worker("probe", NoData))

\* tcp = get_tcp_globals(); dns = ...; power = get_active_power_guid()
TcpWorkerProbe ==
  /\ vals.op = "workers" /\ vals.tcp.pc = "probe"
  /\ vals' = [vals EXCEPT !.tcp = Worker("open", ProbeData(World, BackupIface(World, ""),
                                                            "none"))]
  /\ Ran(World)

\* open(BACKUP_FILE, "w")
TcpWorkerOpen ==
  /\ vals.op = "workers" /\ vals.tcp.pc = "open"
  /\ vals' = [vals EXCEPT !.tcp.pc = "dump"]
  /\ Ran([World EXCEPT !.file = Corrupt])

\* json.dump(data, f)
TcpWorkerDump ==
  /\ vals.op = "workers" /\ vals.tcp.pc = "dump"
  /\ vals' = [vals EXCEPT !.tcp.pc = "commands"]
  /\ Ran([World EXCEPT !.file = Snapshot(vals.tcp.data)])

\* the if / else of apply_tcp_tweaks
TcpWorkerCommands ==
  /\ vals.op = "workers" /\ vals.tcp.pc = "commands"
  /\ vals' = [vals EXCEPT !.tcp.pc = "done"]
  /\ Ran(TcpTweaks(World, out.enable).w)

PowerWorkerProbe ==
  /\ vals.op = "workers" /\ vals.power.pc = "probe"
  /\ vals' = [vals EXCEPT !.power = Worker("open", ProbeData(World, BackupIface(World, ""),
                                                              "none"))]
  /\ Ran(World)

PowerWorkerOpen ==
  /\ vals.op = "workers" /\ vals.power.pc = "open"
  /\ vals' = [vals EXCEPT !.power.pc = "dump"]
  /\ Ran([World EXCEPT !.file = Corrupt])

PowerWorkerDump ==
  /\ vals.op = "workers" /\ vals.power.pc = "dump"
  /\ vals' = [vals EXCEPT !.power.pc = "commands"]
  /\ Ran([World EXCEPT !.file = Snapshot(vals.power.data)])

\* run_cmd(f'powercfg /setactive {guid}')
PowerWorkerCommands ==
  /\ vals.op = "workers" /\ vals.power.pc = "commands"
  /\ vals' = [vals EXCEPT !.power.pc = "done"]
  /\ Ran(Run(World, PowerSet(PowerPlanGuid(out.high_perf))))

NextWorkers ==
  \/ TcpWorkerProbe
  \/ TcpWorkerOpen
  \/ TcpWorkerDump
  \/ TcpWorkerCommands
  \/ PowerWorkerProbe
  \/ PowerWorkerOpen
  \/ PowerWorkerDump
  \/ PowerWorkerCommands

SpecWorkers == InitWorkers /\ [][NextWorkers]_vars

(***************************************************************************)
(* The tab bar of delaykiller.py.  The interface state is current_page,    *)
(* the lock `animating`, the name of the highlighted tab button            *)
(* (_active_tab_name) and the callbacks app.after has pending.  A request  *)
(* (switch_tab from a tab button, or slide_to called by itself) runs to    *)
(* its end, step(0) included; each pending callback runs as one step.  A   *)
(* Tk call that raises is the fault of the handler: in the setup of        *)
(* slide_to, or in a step outside its guarded place calls.  The x          *)
(* positions of the frames, and `direction` with them, are left out.       *)
(***************************************************************************)
TAB_NAMES ==
  <<"Dashboard", "Boost Engine", "Network Tools", "System Tools", "Settings">>

\* the keys of `pages`, which are those of _tab_buttons
pages == {TAB_NAMES[k] : k \in 1..Len(TAB_NAMES)}

\* steps=18, the default slide_to is always called with
Steps == 18

TabNames == pages \cup {"Unknown"}

TabFaults == {"none", "setup_fail", "step_fail"}

Ui(page, anim, active, timers) ==
  [current_page |-> page, animating |-> anim, active |-> active, timers |-> timers]

\* a pending `lambda: step(i + 1)` with what its closure captured
Callback(new_name, prev_page, i) ==
  [new_name |-> new_name, prev_page |-> prev_page, i |-> i]

\* the interface now
Tabs ==
  Ui(vals.current_page, vals.animating, vals.active, vals.timers)

\* step(i) of the animation t belongs to
step(u, t, fault) ==
  IF fault = "step_fail"
    THEN [u EXCEPT !.current_page = t.new_name, !.animating = FALSE]
  ELSE IF t.i < Steps
    THEN [u EXCEPT !.timers = @ \cup {Callback(t.new_name, t.prev_page, t.i + 1)}]
  ELSE [u EXCEPT !.current_page = t.new_name, !.animating = FALSE]

slide_to(u, new_name, fault) ==
  IF u.animating THEN u
  ELSE IF new_name \notin pages \/ fault = "setup_fail"
    \* pages[new_name] or a place call raised: the lock is cleared, no more
    THEN [u EXCEPT !.animating = FALSE]
  ELSE step([u EXCEPT !.animating = TRUE], Callback(new_name, u.current_page, 0), fault)

set_active_tab_button(u, name) ==
  IF name \in pages THEN [u EXCEPT !.active = name] ELSE u

\* a switch_tab that does not look at the lock
switch_tab_WhileAnimating(u, name, fault) ==
  IF name \notin pages THEN u
  ELSE IF name = u.current_page THEN u
  ELSE slide_to(set_active_tab_button(u, name), name, fault)

switch_tab(u, name, fault) ==
  IF name \notin pages THEN u
  ELSE IF name = u.current_page THEN u
  ELSE IF u.animating THEN u
  ELSE slide_to(set_active_tab_button(u, name), name, fault)

\* the interface after an event, with the event and the interface before it;
\* `direct` remembers that slide_to was called by itself and went ahead
Event(fn, name, fault, u) ==
  [op |-> "tabs", current_page |-> u.current_page, animating |-> u.animating,
   active |-> u.active, timers |-> u.timers,
   direct |-> vals.direct \/ (fn = "slide_to" /\ u # Tabs),
   ev |-> [fn |-> fn, name |-> name, fault |-> fault], pre |-> Tabs]

\* lines 801-806: the first page is placed and its button highlighted
InitTabs ==
  /\ win = TRUE
  /\ admin = TRUE
  /\ iface_var = "Ethernet"
  /\ tcp = TcpRecord("normal", "disabled", "enabled", "disabled", "none", "disabled")
  /\ dns = [i \in Ifaces |-> [dhcp |-> TRUE, servers |-> DhcpServers]]
  /\ power = BALANCED_GUID
  /\ mtu = StartMtu
  /\ file = Absent
  /\ hist = <<>>
  /\ out = NoOutput
  /\ vals = [op |-> "tabs", current_page |-> TAB_NAMES[1], animating |-> FALSE,
             active |-> TAB_NAMES[1], timers |-> {}, direct |-> FALSE,
             ev |-> [fn |-> "start", name |-> TAB_NAMES[1], fault |-> "none"],
             pre |-> Ui(None, FALSE, None, {})]

SwitchTab ==
  \E name \in TabNames, fault \in TabFaults :
    /\ vals' = Event("switch_tab", name, fault, switch_tab(Tabs, name, fault))
    /\ UNCHANGED <<win, admin, iface_var, tcp, dns, power, mtu, file, hist, out>>

SlideTo ==
  \E name \in TabNames, fault \in TabFaults :
    /\ vals' = Event("slide_to", name, fault, slide_to(Tabs, name, fault))
    /\ UNCHANGED <<win, admin, iface_var, tcp, dns, power, mtu, file, hist, out>>

\* the event loop runs a pending callback
Timer ==
  \E t \in vals.timers, fault \in {"none", "step_fail"} :
    /\ vals' = Event("step", t.new_name, fault,
                     step([Tabs EXCEPT !.timers = @ \ {t}], t, fault))
    /\ UNCHANGED <<win, admin, iface_var, tcp, dns, power, mtu, file, hist, out>>

NextTabs ==
  \/ SwitchTab
  \/ SlideTo
  \/ Timer

\* the event loop does not leave a due callback waiting for ever
SpecTabs == InitTabs /\ [][NextTabs]_vars /\ WF_vars(Timer)

(***************************************************************************)
(* Reading the history.                                                    *)
(***************************************************************************)
\* the host and the file as operation n left them
Post(n) == IF n < Len(hist) THEN hist[n + 1].pre ELSE Host(World)

PostFile(n) == IF n < Len(hist) THEN hist[n + 1].preFile ELSE file

\* the commands of kind K that operation n issued, in order
Issued(n, K) == SelectSeq(hist[n].trace, LAMBDA c : c.k \in K)

TcpTweakScope == {"autotuninglevel", "ecncapability", "rss", "chimney"}

LowLatencyScope == {"congestionprovider", "timestamps"}

\* both operations ran on Windows with the environment behaving
Nominal(n) == win /\ hist[n].call.fault = "none"

(***************************************************************************)
(* C1.  For each tweak kind, enable=true and then enable=false, both with  *)
(* auto-backup on, leave every parameter of the tweak's scope at the value *)
(* it had before the enable=true call.                                     *)
(***************************************************************************)
OnThenOff(n, op) ==
  /\ n >= 2
  /\ hist[n - 1].call.op = op /\ hist[n].call.op = op
  /\ hist[n - 1].call.a /\ ~hist[n].call.a
  /\ hist[n - 1].call.b /\ hist[n].call.b
  /\ hist[n - 1].call.iface = hist[n].call.iface
  /\ Nominal(n - 1) /\ Nominal(n)

\* C1: off after on puts every parameter of the scope back
C1_OffInvertsOn ==
  \A n \in 1..Len(hist) :
    /\ OnThenOff(n, "apply_tcp_tweaks") =>
         \A f \in TcpTweakScope : Post(n).tcp[f] = hist[n - 1].pre.tcp[f]
    /\ OnThenOff(n, "set_low_latency_mode") =>
         \A f \in LowLatencyScope : Post(n).tcp[f] = hist[n - 1].pre.tcp[f]
    /\ OnThenOff(n, "apply_dns_mode") =>
         Post(n).dns[hist[n].call.iface] = hist[n - 1].pre.dns[hist[n].call.iface]
    /\ OnThenOff(n, "set_power_plan") =>
         Post(n).power = hist[n - 1].pre.power

(***************************************************************************)
(* C2.  apply_all followed by reset_all leaves every TCP global, the DNS   *)
(* configuration of the selected interface and the active power scheme at  *)
(* their values before apply_all, whatever the toggles.                    *)
(***************************************************************************)
ApplyThenReset(n) ==
  /\ n >= 2
  /\ hist[n - 1].call.op = "apply_all" /\ hist[n].call.op = "reset_all"
  /\ Nominal(n - 1) /\ Nominal(n)

\* C2: reset_all after apply_all puts the host back
C2_ResetUndoesApplyAll ==
  \A n \in 1..Len(hist) :
    ApplyThenReset(n) =>
      /\ Post(n).tcp = hist[n - 1].pre.tcp
      /\ Post(n).dns[iface_var] = hist[n - 1].pre.dns[iface_var]
      /\ Post(n).power = hist[n - 1].pre.power

(***************************************************************************)
(* C3.  Round trip.  After a capture, an apply operation with enable=false *)
(* and a restore: every field the capture recorded holds the value it had  *)
(* at the capture, every field the capture could not record is unchanged,  *)
(* and the restore issues no command for a field absent from the snapshot  *)
(* it reads (TCP global without a value, DNS entry with neither DHCP nor a *)
(* server, power scheme without a GUID).                                   *)
(***************************************************************************)
RoundTrip ==
  /\ Len(hist) = 3
  /\ hist[1].call.op = "backup_settings" /\ hist[1].code = 0
  /\ hist[2].call.op \in {"apply_tcp_tweaks", "set_low_latency_mode", "apply_dns_mode",
                         "set_power_plan"}
  /\ ~hist[2].call.a
  /\ hist[3].call.op = "restore_from_backup"

\* the record the capture wrote, and the record the restore read
Captured == hist[2].preFile.data

Restored == hist[3].preFile.data

DnsUsable(d) == d.iface \in Ifaces /\ (d.dhcp \/ d.servers # <<>>)

\* C3: capture, off, restore reproduces what was captured and issues nothing
\* for what was not
C3_RoundTrip ==
  RoundTrip =>
    /\ \A f \in FieldSet : tcp[f] = hist[1].pre.tcp[f]
    /\ dns = hist[1].pre.dns
    /\ power = hist[1].pre.power
    /\ \A f \in FieldSet :
         ~Truthy(Restored.tcp[f]) =>
           \A j \in 1..Len(hist[3].trace) :
             ~(hist[3].trace[j].k = "tcp_set" /\ hist[3].trace[j].a = f)
    /\ ~DnsUsable(Restored) => Issued(3, DnsKinds) = <<>>
    /\ ~Truthy(Restored.power) => Issued(3, PowerKinds) = <<>>

\* a round trip on Windows whose capture recorded every TCP global, a static
\* list of several servers and the power scheme, and whose restore replayed them
C3_Witness ==
  /\ RoundTrip /\ win
  /\ \A f \in FieldSet : Truthy(Captured.tcp[f])
  /\ ~Captured.dhcp /\ Len(Captured.servers) >= 2
  /\ Truthy(Captured.power)
  /\ Len(Issued(3, TcpKinds)) = 6
  /\ Len(Issued(3, DnsKinds)) >= 2

(***************************************************************************)
(* C4.  Capture before mutate.  In every apply operation run with          *)
(* auto-backup, the three probes and the write of the snapshot come before *)
(* the first mutating command.                                             *)
(***************************************************************************)
AutoBackupOp(n) ==
  /\ win
  /\ \/ hist[n].call.op \in {"apply_tcp_tweaks", "set_low_latency_mode"} /\ hist[n].call.b
     \/ hist[n].call.op \in {"apply_dns_mode", "set_power_plan"}

\* the position of the first command of a kind in K, or one past the end
First(tr, K) ==
  IF \E j \in 1..Len(tr) : tr[j].k \in K
    THEN CHOOSE j \in 1..Len(tr) :
           tr[j].k \in K /\ \A i \in 1..(j - 1) : tr[i].k \notin K
    ELSE Len(tr) + 1

\* C4: probes, then the write of the snapshot (which succeeds when the
\* environment behaves), then the first mutating command
C4_CaptureBeforeMutate ==
  \A n \in 1..Len(hist) :
    AutoBackupOp(n) =>
      LET tr == hist[n].trace
      IN /\ First(tr, {"show_tcp"}) < First(tr, {"save"})
         /\ First(tr, {"show_dns"}) < First(tr, {"save"})
         /\ First(tr, {"show_power"}) < First(tr, {"save"})
         /\ First(tr, {"save"}) < First(tr, MutatingKinds)
         /\ First(tr, {"save"}) <= Len(tr)
         /\ hist[n].call.fault = "none" => tr[First(tr, {"save"})].b = "ok"

\* an apply operation with auto-backup that went on to change the host
C4_Witness ==
  \E n \in 1..Len(hist) :
    /\ AutoBackupOp(n)
    /\ hist[n].call.op = "apply_dns_mode" /\ hist[n].call.a
    /\ Len(Issued(n, MutatingKinds)) = 3
    /\ Post(n).dns # hist[n].pre.dns

(***************************************************************************)
(* C5.  With enable=false an apply operation takes its hardcoded           *)
(* off-sequence only when no snapshot exists; when one exists the commands *)
(* carry the snapshot's values.                                            *)
(***************************************************************************)
OffOp(n) ==
  /\ win
  /\ hist[n].call.op \in {"apply_tcp_tweaks", "set_low_latency_mode", "apply_dns_mode"}
  /\ ~hist[n].call.a

\* the operation fell through to its hardcoded sequence: it reports "applied",
\* not "restored"
TookFallback(n) ==
  hist[n].msg \in {"TCP tweaks applied", "Low latency applied", "DNS mode applied"}

\* the snapshot the off path reads: the file as the operation's auto-backup left it
SnapshotExists(n) == PostFile(n).st = "ok"

\* C5 as stated: the hardcoded off-sequence only when no snapshot exists
C5_FallbackOnlyWithoutSnapshot ==
  \A n \in 1..Len(hist) :
    OffOp(n) => (TookFallback(n) => ~SnapshotExists(n))

\* the snapshot holds the entry the scope needs: for DNS, the interface's
SnapshotHasScope(n) ==
  /\ SnapshotExists(n)
  /\ hist[n].call.op = "apply_dns_mode" =>
       PostFile(n).data.iface = DnsIface(hist[n].call.iface)

\* command c carries the value the document d holds for what it sets
FromSnapshot(c, d) ==
  CASE c.k = "tcp_set" -> c.b = d.tcp[c.a]
    [] c.k = "dns_dhcp" -> c.a = d.iface /\ d.dhcp
    [] c.k = "dns_static" -> c.a = d.iface /\ ~d.dhcp /\ c.b = d.servers[1]
    [] c.k = "dns_add" ->
         c.a = d.iface /\ ~d.dhcp /\ c.n \in 2..Len(d.servers) /\ c.b = d.servers[c.n]
    [] c.k = "power_set" -> c.b = d.power
    [] OTHER -> TRUE

\* C5 as amended: the fallback is taken only when no snapshot loads or, in
\* apply_dns_mode, when the snapshot holds no entry for the interface; with
\* the entry there, every command carries the snapshot's value
C5_FallbackOnlyWithoutScope ==
  \A n \in 1..Len(hist) :
    OffOp(n) =>
      /\ TookFallback(n) => ~SnapshotHasScope(n)
      /\ SnapshotHasScope(n) =>
           /\ ~TookFallback(n)
           /\ hist[n].code = 0
           /\ \A j \in 1..Len(hist[n].trace) :
                FromSnapshot(hist[n].trace[j], PostFile(n).data)

\* an off call that found a snapshot and replayed it, and one that found a
\* snapshot without the interface's entry and fell back
C5_Witness ==
  /\ Len(hist) = 2
  /\ OffOp(1) /\ SnapshotHasScope(1) /\ Len(Issued(1, TcpKinds)) >= 2
  /\ OffOp(2) /\ SnapshotExists(2) /\ ~SnapshotHasScope(2) /\ TookFallback(2)

(***************************************************************************)
(* C6.  An apply operation called with enable=false while no snapshot is   *)
(* present issues the fixed off-sequence of its kind and returns 0.        *)
(***************************************************************************)
OffSequence(n) ==
  CASE hist[n].call.op = "apply_tcp_tweaks" -> TcpOffCmds
    [] hist[n].call.op = "set_low_latency_mode" -> LowLatencyOffCmds
    [] OTHER -> DnsOffCmds(DnsIface(hist[n].call.iface))

\* C6: off with no snapshot present issues the fixed off-sequence, returns 0
C6_FallbackWhenNoSnapshot ==
  \A n \in 1..Len(hist) :
    (OffOp(n) /\ Nominal(n) /\ hist[n].preFile.st = "absent") =>
      /\ hist[n].code = 0
      /\ Issued(n, MutatingKinds) = OffSequence(n)

(***************************************************************************)
(* C7.  When the snapshot exists but holds no usable value for the scope   *)
(* being restored, the off path issues the fixed safe defaults of the      *)
(* scope instead of issuing nothing and reporting success.                 *)
(***************************************************************************)
ScopeAbsent(n, scope) ==
  /\ SnapshotExists(n)
  /\ \A f \in scope : ~Truthy(PostFile(n).data.tcp[f])

\* C7: a snapshot without a usable value for the scope yields the defaults
C7_DefaultsWhenScopeUnusable ==
  \A n \in 1..Len(hist) :
    /\ (OffOp(n) /\ hist[n].call.op = "apply_tcp_tweaks" /\ ScopeAbsent(n, TcpTweakScope)) =>
         Issued(n, TcpKinds) = TcpOffCmds
    /\ (OffOp(n) /\ hist[n].call.op = "set_low_latency_mode"
          /\ ScopeAbsent(n, LowLatencyScope)) =>
         Issued(n, TcpKinds) = LowLatencyOffCmds
    /\ (win /\ hist[n].call.op = "restore_from_backup" /\ ScopeAbsent(n, FieldSet)) =>
         ~(Issued(n, TcpKinds) = <<>> /\ hist[n].code = 0)

(***************************************************************************)
(* C8.  Turning a TCP tweak off touches only TCP: apply_tcp_tweaks and     *)
(* set_low_latency_mode with enable=false issue no DNS and no power        *)
(* command and leave the DNS configuration and the power scheme alone.     *)
(***************************************************************************)
C8_TcpOffLeavesDnsAndPower ==
  \A n \in 1..Len(hist) :
    (OffOp(n) /\ hist[n].call.op \in {"apply_tcp_tweaks", "set_low_latency_mode"}) =>
      /\ Issued(n, DnsKinds \cup PowerKinds) = <<>>
      /\ Post(n).dns = hist[n].pre.dns
      /\ Post(n).power = hist[n].pre.power

(***************************************************************************)
(* C9.  DNS restore ordering.  For a snapshot entry with dhcp=false and    *)
(* servers s1..sn, restore_from_backup and apply_dns_mode(enable=false)    *)
(* issue set-static-primary(s1) first and then add(s_i, index=i) for       *)
(* i = 2..n in list order, and nothing else for the interface.             *)
(***************************************************************************)
StaticRestore(n) ==
  /\ \/ hist[n].call.op = "restore_from_backup" /\ hist[n].code = 0
     \/ /\ hist[n].call.op = "apply_dns_mode" /\ ~hist[n].call.a
        /\ hist[n].msg = "DNS restored from backup"
  /\ PostFile(n).data.iface # ""
  /\ ~PostFile(n).data.dhcp
  /\ Len(PostFile(n).data.servers) >= 1

\* C9: primary first, then the secondaries at index 2..n in list order
C9_DnsRestoreOrder ==
  \A n \in 1..Len(hist) :
    StaticRestore(n) =>
      LET s == PostFile(n).data.servers
          D == SelectSeq(hist[n].trace,
                         LAMBDA c : c.k \in DnsKinds /\ c.a = PostFile(n).data.iface)
      IN /\ Len(D) = Len(s)
         /\ D[1].k = "dns_static" /\ D[1].b = s[1]
         /\ \A i \in 2..Len(s) : D[i].k = "dns_add" /\ D[i].b = s[i] /\ D[i].n = i

\* apply_dns_mode(enable=false) and then restore_from_backup, each replaying
\* a static list of three servers
C9_Witness ==
  /\ Len(hist) = 2 /\ win
  /\ hist[1].call.op = "apply_dns_mode" /\ StaticRestore(1)
  /\ hist[2].call.op = "restore_from_backup" /\ StaticRestore(2)
  /\ Len(PostFile(1).data.servers) = 3
  /\ Len(PostFile(2).data.servers) = 3
  /\ dns[PostFile(2).data.iface].servers = PostFile(2).data.servers

(***************************************************************************)
(* C10.  restore_from_backup issues, for each of the six TCP globals whose *)
(* snapshot value is present, exactly one set command carrying that value, *)
(* and no command for a field whose value is absent.                       *)
(***************************************************************************)
C10_OneCommandPerPresentField ==
  \A n \in 1..Len(hist) :
    (hist[n].call.op = "restore_from_backup" /\ hist[n].preFile.st = "ok") =>
      \A f \in FieldSet :
        LET cs == SelectSeq(hist[n].trace, LAMBDA c : c.k = "tcp_set" /\ c.a = f)
            v == hist[n].preFile.data.tcp[f]
        IN IF Truthy(v) THEN Len(cs) = 1 /\ cs[1].b = v ELSE cs = <<>>

\* a restore from a snapshot that lacks the ECN value and holds the other five
C10_Witness ==
  \E n \in 1..Len(hist) :
    /\ hist[n].call.op = "restore_from_backup" /\ hist[n].preFile.st = "ok"
    /\ hist[n].preFile.data.tcp["ecncapability"] = None
    /\ Len(Issued(n, TcpKinds)) = 5

(***************************************************************************)
(* C11.  On restore, a snapshot entry with dhcp=true yields the one        *)
(* DHCP-source command for its interface whatever its server list holds,   *)
(* and an entry with dhcp=false and no server yields no DNS-setting        *)
(* command.  Both in restore_from_backup and in apply_dns_mode(False).     *)
(***************************************************************************)
\* operation n replayed the DNS entry of the snapshot it read
DnsRestore(n) ==
  /\ \/ hist[n].call.op = "restore_from_backup" /\ hist[n].code = 0
     \/ /\ hist[n].call.op = "apply_dns_mode" /\ ~hist[n].call.a
        /\ hist[n].msg = "DNS restored from backup"
  /\ PostFile(n).data.iface # ""

\* the DNS-setting commands operation n issued for the snapshot's interface
DnsIssued(n) ==
  SelectSeq(hist[n].trace, LAMBDA c : c.k \in DnsKinds /\ c.a = PostFile(n).data.iface)

C11_DhcpIgnoresServers ==
  \A n \in 1..Len(hist) :
    DnsRestore(n) =>
      /\ PostFile(n).data.dhcp => DnsIssued(n) = <<DnsDhcp(PostFile(n).data.iface)>>
      /\ (~PostFile(n).data.dhcp /\ PostFile(n).data.servers = <<>>) =>
           DnsIssued(n) = <<>>

\* apply_dns_mode(False) and then restore_from_backup, each replaying an
\* entry with dhcp=true and a server in its list
C11_Witness ==
  /\ Len(hist) = 2 /\ win
  /\ hist[1].call.op = "apply_dns_mode" /\ DnsRestore(1)
  /\ hist[2].call.op = "restore_from_backup" /\ DnsRestore(2)
  /\ PostFile(1).data.dhcp /\ PostFile(1).data.servers # <<>>
  /\ PostFile(2).data.dhcp /\ PostFile(2).data.servers # <<>>
  /\ DnsIssued(1) = <<DnsDhcp(PostFile(1).data.iface)>>
  /\ DnsIssued(2) = <<DnsDhcp(PostFile(2).data.iface)>>

(***************************************************************************)
(* C12.  With no snapshot file, restore_from_backup returns False, issues  *)
(* no command and changes neither the host nor the file.                   *)
(***************************************************************************)
RestoreWithoutFile(n) ==
  hist[n].call.op = "restore_from_backup" /\ hist[n].preFile.st = "absent"

C12_RestoreWithoutSnapshot ==
  \A n \in 1..Len(hist) :
    RestoreWithoutFile(n) =>
      /\ hist[n].msg = "False"
      /\ hist[n].trace = <<>>
      /\ Post(n) = hist[n].pre
      /\ PostFile(n) = hist[n].preFile

\* a tweak applied without backup, then a restore that finds no file
C12_Witness ==
  /\ Len(hist) = 2 /\ win
  /\ hist[1].call.op = "apply_tcp_tweaks" /\ hist[1].call.a /\ ~hist[1].call.b
  /\ RestoreWithoutFile(2)
  /\ hist[2].msg = "False"

(***************************************************************************)
(* C13.  restore_from_backup leaves the snapshot file as it found it, and  *)
(* run twice in a row it issues the same commands, returns the same result *)
(* and leaves the host as the first run left it.                           *)
(***************************************************************************)
RestoredTwice(n) ==
  /\ n >= 2
  /\ hist[n - 1].call.op = "restore_from_backup"
  /\ hist[n].call.op = "restore_from_backup"

C13_RestoreIdempotent ==
  \A n \in 1..Len(hist) :
    /\ hist[n].call.op = "restore_from_backup" => PostFile(n) = hist[n].preFile
    /\ RestoredTwice(n) =>
         /\ hist[n].trace = hist[n - 1].trace
         /\ hist[n].code = hist[n - 1].code
         /\ Post(n) = Post(n - 1)

\* DNS mode switched on over a static list of several servers, then two
\* restores: the first one puts the list back, the second one repeats it
C13_Witness ==
  /\ Len(hist) = 4 /\ win
  /\ hist[2].call.op = "apply_dns_mode"
  /\ RestoredTwice(4)
  /\ hist[3].code = 0 /\ hist[4].code = 0
  /\ Len(DnsIssued(3)) >= 3
  /\ Post(3) # hist[3].pre
  /\ Post(4) = Post(3)

(***************************************************************************)
(* Reading a probe's result.                                               *)
(***************************************************************************)
\* get_tcp_globals ran on output the query delivered
TcpProbed == vals.op = "get_tcp_globals" /\ out.code = 0 /\ out.lines # <<>>

\* the lines of the output that are about field f, in either phrasing
LinesOf(f) == {i \in 1..Len(out.lines) : Matches(f, out.lines[i])}

\* the output holds at most one line about each field
OneLinePerField == \A f \in FieldSet : Cardinality(LinesOf(f)) <= 1

(***************************************************************************)
(* C14.  Partial-field tolerance: whichever field lines the output lacks,  *)
(* get_tcp_globals returns a record in which exactly those fields are      *)
(* absent and every other field holds the value the output shows for it.   *)
(***************************************************************************)
C14_PartialFieldTolerance ==
  (TcpProbed /\ OneLinePerField) =>
    \A f \in FieldSet :
      IF LinesOf(f) = {} THEN ~Truthy(vals.tcp[f])
      ELSE \A i \in LinesOf(f) : vals.tcp[f] = out.lines[i].value

(***************************************************************************)
(* C15.  For each phrasing a field's pattern accepts, the recorded value   *)
(* is the value V of the matched line itself, so that the restore replays  *)
(* `<field>=V`.                                                            *)
(***************************************************************************)
C15_RecordsValueItself ==
  TcpProbed =>
    \A f \in FieldSet :
      FirstMatch(f, out.lines) # 0 =>
        /\ vals.tcp[f] = out.lines[FirstMatch(f, out.lines)].value
        /\ RestoreTcpCmd(f, vals.tcp[f])
             = TcpSet(f, out.lines[FirstMatch(f, out.lines)].value)

(***************************************************************************)
(* C16.  get_dns_info reports dhcp=true exactly when the output holds a    *)
(* DHCP token, and as servers every dotted quad of the output in output    *)
(* order; a failed or empty query yields dhcp=false and no server.         *)
(***************************************************************************)
DnsProbed == vals.op = "get_dns_info"

\* the positions of the dotted quads in the output
QuadAt == {i \in 1..Len(out.words) : DottedQuad(out.words[i])}

\* the position of the k-th dotted quad
NthQuad(k) == CHOOSE i \in QuadAt : Cardinality({j \in QuadAt : j <= i}) = k

C16_DnsInfo ==
  DnsProbed =>
    IF out.code # 0 \/ out.words = <<>>
      THEN vals.dns = [dhcp |-> FALSE, servers |-> <<>>]
      ELSE /\ vals.dns.dhcp <=> (\E i \in 1..Len(out.words) : out.words[i] \in {"DHCP", "dhcp"})
           /\ Len(vals.dns.servers) = Cardinality(QuadAt)
           /\ \A k \in 1..Len(vals.dns.servers) :
                vals.dns.servers[k] = out.words[NthQuad(k)]

\* an output with the DHCP token followed by two addresses
C16_Witness ==
  /\ DnsProbed /\ out.code = 0
  /\ out.words = <<"DHCP", "8.8.8.8", "8.8.4.4">>
  /\ vals.dns = [dhcp |-> TRUE, servers |-> <<"8.8.8.8", "8.8.4.4">>]

(***************************************************************************)
(* Running an operation of the history again.                              *)
(***************************************************************************)
\* the world operation n started in
PreWorld(n) ==
  [win |-> win, admin |-> admin, refuse |-> hist[n].call.fault = "cmd_fail",
   iface_var |-> iface_var, tcp |-> hist[n].pre.tcp, dns |-> hist[n].pre.dns,
   power |-> hist[n].pre.power, mtu |-> hist[n].pre.mtu,
   file |-> hist[n].preFile, trace |-> <<>>]

\* apply operation n from the same world, the environment behaving as `fault`
Rerun(n, fault) ==
  CASE hist[n].call.op = "apply_tcp_tweaks" ->
         apply_tcp_tweaks(PreWorld(n), hist[n].call.a, hist[n].call.b, fault)
    [] hist[n].call.op = "set_low_latency_mode" ->
         set_low_latency_mode(PreWorld(n), hist[n].call.a, hist[n].call.b, fault)
    [] hist[n].call.op = "apply_dns_mode" ->
         apply_dns_mode(PreWorld(n), hist[n].call.a, hist[n].call.iface, fault)
    [] OTHER -> set_power_plan(PreWorld(n), hist[n].call.a, fault)

Mutating(tr) == SelectSeq(tr, LAMBDA c : c.k \in MutatingKinds)

(***************************************************************************)
(* C17.  Single slot, no merge: after a capture that succeeded the file is *)
(* exactly the document that capture probed; after one that failed it is   *)
(* still the document of the most recent capture that succeeded.           *)
(***************************************************************************)
Capture(n) == win /\ hist[n].call.op = "backup_settings"

C17_SingleSlotOverwrite ==
  \A n \in 1..Len(hist) :
    Capture(n) =>
      IF hist[n].code = 0
        THEN PostFile(n) =
               Snapshot(ProbeData(PreWorld(n), BackupIface(PreWorld(n), hist[n].call.iface),
                                  hist[n].call.fault))
        ELSE hist[n].preFile.st = "ok" => PostFile(n) = hist[n].preFile

(***************************************************************************)
(* C18.  The save is atomic: the file never holds an empty or partial      *)
(* document, and a capture leaves either the previous snapshot or the new  *)
(* one, complete.                                                          *)
(***************************************************************************)
C18_AtomicSave ==
  /\ file.st # "corrupt"
  /\ \A n \in 1..Len(hist) :
       Capture(n) =>
         \/ PostFile(n) = hist[n].preFile
         \/ hist[n].code = 0 /\ PostFile(n).st = "ok"

(***************************************************************************)
(* C19.  backup_settings and restore_from_backup never raise: a failure to *)
(* open, write or decode the snapshot file comes back as False.            *)
(***************************************************************************)
\* the snapshot file failed operation n
FileFailure(n) ==
  \/ hist[n].call.op = "backup_settings" /\ hist[n].call.fault \in {"open_fail", "write_fail"}
  \/ hist[n].call.op = "restore_from_backup" /\ hist[n].preFile.st = "corrupt"

CaptureFailed(n) ==
  AutoBackupOp(n) /\ hist[n].call.fault \in {"open_fail", "write_fail"}

\* the operation applies a fixed sequence: enable=true, or the power plan
FixedSequence(n) == hist[n].call.a \/ hist[n].call.op = "set_power_plan"

C20_FailedCaptureDoesNotBlock ==
  \A n \in 1..Len(hist) :
    CaptureFailed(n) =>
      /\ hist[n].code = Rerun(n, "none").code
      /\ FixedSequence(n) =>
           Mutating(hist[n].trace) = Mutating(Rerun(n, "none").w.trace)

(***************************************************************************)
(* C21.  The on path is idempotent: an apply operation run twice in a row  *)
(* with enable=true issues its fixed on-sequence both times, whatever the  *)
(* host and the snapshot hold, and leaves the host as one run leaves it.   *)
(***************************************************************************)
OnTwice(n) ==
  /\ n >= 2 /\ win
  /\ hist[n].call.op \in {"apply_tcp_tweaks", "set_low_latency_mode", "apply_dns_mode",
                         "set_power_plan"}
  /\ hist[n - 1].call.op = hist[n].call.op
  /\ hist[n - 1].call.iface = hist[n].call.iface
  /\ hist[n - 1].call.a /\ hist[n].call.a

OnSequence(n) ==
  CASE hist[n].call.op = "apply_tcp_tweaks" -> TcpOnCmds
    [] hist[n].call.op = "set_low_latency_mode" -> LowLatencyOnCmds
    [] hist[n].call.op = "apply_dns_mode" -> DnsOnCmds(DnsIface(hist[n].call.iface))
    [] OTHER -> <<PowerSet(HIGH_PERF_GUID)>>

C21_OnPathIdempotent ==
  \A n \in 1..Len(hist) :
    OnTwice(n) =>
      /\ Mutating(hist[n - 1].trace) = OnSequence(n)
      /\ Mutating(hist[n].trace) = OnSequence(n)
      /\ hist[n].call.op = "apply_tcp_tweaks" =>
           Mutating(hist[n].trace) =
             <<TcpSet("autotuninglevel", "normal"), TcpSet("ecncapability", "enabled"),
               TcpSet("rss", "enabled"), TcpSet("chimney", "disabled")>>
      /\ hist[n].code = 0
      /\ Post(n) = Post(n - 1)

\* apply_tcp_tweaks(True) twice on a host the first run changed
C21_Witness ==
  /\ Len(hist) = 2 /\ OnTwice(2)
  /\ hist[2].call.op = "apply_tcp_tweaks"
  /\ Post(1) # hist[1].pre
  /\ Len(Mutating(hist[2].trace)) = 4
  /\ Post(2) = Post(1)

(***************************************************************************)
(* C22.  A failure of the primary action is surfaced: when a mutating      *)
(* command of apply_tcp_tweaks, set_low_latency_mode, apply_dns_mode,      *)
(* set_power_plan, restore_from_backup or repair_network_stack exits       *)
(* non-zero or times out, the operation returns a non-zero code (False     *)
(* for restore_from_backup).                                               *)
(***************************************************************************)
PrimaryOps ==
  {"apply_tcp_tweaks", "set_low_latency_mode", "apply_dns_mode", "set_power_plan",
   "restore_from_backup", "repair_network_stack"}

\* operation n issued a mutating command and the host refused it
CommandFailed(n) ==
  /\ win
  /\ hist[n].call.op \in PrimaryOps
  /\ hist[n].call.fault = "cmd_fail" \/ ~admin
  /\ Mutating(hist[n].trace) # <<>>

C22_FailureSurfaced ==
  \A n \in 1..Len(hist) : CommandFailed(n) => hist[n].code # 0

(***************************************************************************)
(* C23.  On a host that is not Windows every operation (the four apply     *)
(* operations, backup_settings, restore_from_backup, reset_all) returns    *)
(* its unsupported result at once and executes no external command.        *)
(***************************************************************************)
PlatformOps ==
  {"apply_tcp_tweaks", "set_low_latency_mode", "apply_dns_mode", "set_power_plan",
   "backup_settings", "restore_from_backup", "reset_all"}

\* the command lines handed to run_cmd: everything but the write of the file
External(tr) == SelectSeq(tr, LAMBDA c : c.k # "save")

C23_UnsupportedPlatform ==
  \A n \in 1..Len(hist) :
    (~win /\ hist[n].call.op \in PlatformOps) =>
      /\ External(hist[n].trace) = <<>>
      /\ hist[n].code = 1
      /\ PostFile(n) = hist[n].preFile

(***************************************************************************)
(* C24.  A privilege denial is surfaced distinctly: set_dns_interface,     *)
(* apply_mtu and repair_network_stack run without elevation return status  *)
(* 2 ("Admin required"), distinct from success (0) and from the generic    *)
(* failure (1), and issue no command; the platform check comes first, so   *)
(* a host that is not Windows gets "Unsupported".  The same holds for the  *)
(* apply operations of DelayKillerLite.py.                                 *)
(***************************************************************************)
NetworkToolOps == {"set_dns_interface", "apply_mtu", "repair_network_stack"}

LiteApplyOps ==
  {"apply_tcp_tweaks", "set_low_latency_mode", "apply_dns_mode", "set_power_plan"}

Denied(n) ==
  /\ hist[n].code = 2
  /\ hist[n].msg = "Admin required"
  /\ External(hist[n].trace) = <<>>
  /\ Post(n) = hist[n].pre

PrivilegeSurfaced(ops) ==
  \A n \in 1..Len(hist) :
    hist[n].call.op \in ops =>
      /\ ~win => hist[n].code = 1 /\ hist[n].msg = "Unsupported"
      /\ (win /\ ~admin) => Denied(n)

C24_PrivilegeDenied == PrivilegeSurfaced(NetworkToolOps \cup LiteApplyOps)

(***************************************************************************)
(* C25.  The contract of run_cmd, in both files: it never raises; when     *)
(* the child outlives the timeout it returns a non-zero code other than    *)
(* the invocation-failure code 1, with empty output; on any other failure  *)
(* to invoke the child it returns code 1 and the exception's message.      *)
(***************************************************************************)
C25_RunCmdContract ==
  vals # Unread =>
    /\ ~vals.ret.raised
    /\ out.kind = "timeout" =>
         vals.ret.code # 0 /\ vals.ret.code # 1 /\ vals.ret.out = <<>>
    /\ out.kind = "error" => vals.ret.code = 1 /\ vals.ret.out = out.message

(***************************************************************************)
(* C26.  probe_mtu(start=1500, min_mtu=1200) probes the candidates 1500,   *)
(* 1490, ..., 1200 in descending order, each with a payload of the         *)
(* candidate minus 28; it returns the first candidate whose probe          *)
(* succeeds and issues no probe after it; it returns None exactly when no  *)
(* candidate succeeds.                                                     *)
(***************************************************************************)
ProbingMtu == vals # Unread /\ vals.op = "probe_mtu" /\ win

ProbedMtu == ProbingMtu /\ vals.pc = "done"

\* the candidates the responder answers with success
Good == {c \in Candidates : Success(Answer(out, Payload(c)))}

Highest(S) == CHOOSE c \in S : \A d \in S : d <= c

\* the echo probes for the candidates from the ceiling down to c
Descent(c) ==
  [j \in 1..((MtuStart - c) \div MtuStep + 1) |->
     PingDf(Target, MtuStart - (j - 1) * MtuStep - 28)]

C26_FirstSuccessDescending ==
  /\ ProbingMtu =>
       /\ Len(vals.trace) <= Len(Descent(MtuFloor))
       /\ vals.trace = SubSeq(Descent(MtuFloor), 1, Len(vals.trace))
  /\ ProbedMtu =>
       /\ Good = {} => vals.ret = NoInt /\ vals.trace = Descent(MtuFloor)
       /\ Good # {} => vals.ret = Highest(Good) /\ vals.trace = Descent(Highest(Good))

\* a discovery that returned the fourth candidate, the third being lost
C26_Witness ==
  /\ ProbedMtu
  /\ vals.ret = 1470
  /\ Len(vals.trace) = 4
  /\ out.limit >= Payload(1480)

(***************************************************************************)
(* C27.  MTU discovery terminates for every responder, and has issued at   *)
(* most (1500 - 1200) / 10 + 1 = 31 probes when it does.                   *)
(***************************************************************************)
C27_TerminatesWithin31 ==
  /\ [](ProbingMtu => Len(vals.trace) <= 31)
  /\ (out.kind = "mtu") ~> (vals # Unread /\ vals.pc = "done")

\* a discovery that went through every candidate and found none
C27_Witness ==
  /\ ProbedMtu
  /\ Len(vals.trace) = 31
  /\ vals.ret = NoInt

(***************************************************************************)
(* C28.  Against a responder that succeeds only for a payload of at most   *)
(* 1452 bytes (MTU 1480), discovery from 1500 with step 10 and floor 1200  *)
(* returns 1480 after exactly 2 probes.                                    *)
(***************************************************************************)
\* the responder answers exactly the payloads up to 1452
Boundary1480 ==
  /\ out.kind = "mtu"
  /\ \A c \in Candidates : Success(Answer(out, c - 28)) <=> c - 28 <= 1452

\* C28 as stated: 1480 after two probes
C28_Returns1480AfterTwoProbes ==
  (ProbedMtu /\ Boundary1480) => vals.ret = 1480 /\ Len(vals.trace) = 2

\* C28 amended: 1480 after three probes, of which the first two fail
C28_Returns1480AfterThreeProbes ==
  (ProbedMtu /\ Boundary1480) =>
    /\ vals.ret = 1480
    /\ vals.trace = <<PingDf(Target, 1472), PingDf(Target, 1462), PingDf(Target, 1452)>>

C28_Witness ==
  /\ ProbedMtu /\ Boundary1480
  /\ vals.ret = 1480
  /\ Len(vals.trace) = 3

(***************************************************************************)
(* C29.  dns_benchmark returns an entry for every candidate server; a      *)
(* server whose probe output holds no parseable Average value (the probe   *)
(* timed out or failed, or printed no such line) is recorded as None: it   *)
(* is never left out and never recorded as 0 or any other number.          *)
(***************************************************************************)
Benchmarked == vals # Unread /\ vals.op = "dns_benchmark"

\* the lines of PingOutputs that state an average
AverageLines ==
  {StatsLine(<<"1", "2", "ms">>), StatsLine(<<"0", "ms">>)}

NoAverageValue(output) == \A j \in 1..Len(output) : output[j] \notin AverageLines

\* every probe of server s came back without an average
Undetermined(s) ==
  \A j \in 1..Len(out.servers) : out.servers[j] = s => NoAverageValue(out.outputs[j])

C29_UndeterminedIsNone ==
  Benchmarked =>
    /\ DOMAIN vals.ret = {out.servers[j] : j \in 1..Len(out.servers)}
    /\ \A s \in DOMAIN vals.ret : (~win \/ Undetermined(s)) => vals.ret[s] = NoInt

\* two servers: one measured at 12 ms, one whose probe timed out
C29_Witness ==
  /\ Benchmarked /\ win
  /\ out.servers = <<"1.1.1.1", "8.8.8.8">>
  /\ out.outputs[2] = <<<<"Timed", " ", "out">>>>
  /\ vals.ret["1.1.1.1"] = 12
  /\ vals.ret["8.8.8.8"] = NoInt
  /\ Len(vals.trace) = 2

(***************************************************************************)
(* C30.  NetworkProbe is read-only: probe_mtu and dns_benchmark issue      *)
(* echo-probe commands only, and the TCP globals, the DNS configuration,   *)
(* the power scheme, the interface MTU and the snapshot file are after     *)
(* them what they were before.                                             *)
(***************************************************************************)
C30_ProbesReadOnly ==
  (vals # Unread /\ vals.op \in {"probe_mtu", "dns_benchmark"}) =>
    /\ \A j \in 1..Len(vals.trace) :
         vals.trace[j].k = (IF vals.op = "probe_mtu" THEN "ping_df" ELSE "ping_avg")
    /\ Host(World) = vals.pre
    /\ file = vals.preFile

\* a discovery that ran five probes on a host with a snapshot file
C30_Witness ==
  /\ ProbedMtu
  /\ Len(vals.trace) = 5
  /\ vals.ret = 1460
  /\ file.st = "ok"
  /\ Host(World) = vals.pre

(***************************************************************************)
(* C31.  Operations on disjoint scopes are independent: when               *)
(* apply_tcp_tweaks and set_power_plan run concurrently, their steps       *)
(* interleaved in any order, or one after the other, each scope ends with  *)
(* the live value and the snapshot value it has when the other operation   *)
(* does not run; the snapshot holds the TCP globals and the power scheme   *)
(* of before the two operations.                                           *)
(***************************************************************************)
BothDone == vals.op = "workers" /\ vals.tcp.pc = "done" /\ vals.power.pc = "done"

\* the world before either worker started
Before ==
  [World EXCEPT !.tcp = out.pre.tcp, !.dns = out.pre.dns, !.power = out.pre.power,
                !.mtu = out.pre.mtu, !.file = Absent]

\* each operation run alone from that world
TcpAlone == apply_tcp_tweaks(Before, out.enable, TRUE, "none").w

PowerAlone == set_power_plan(Before, out.high_perf, "none").w

C31_DisjointScopesIndependent ==
  BothDone =>
    /\ tcp = TcpAlone.tcp
    /\ power = PowerAlone.power
    /\ file.st = "ok"
    /\ file.data.tcp = TcpAlone.file.data.tcp
    /\ file.data.power = PowerAlone.file.data.power
    /\ file.data.tcp = get_tcp_globals(Before, "none")
    /\ file.data.power = out.pre.power

(***************************************************************************)
(* C32.  apply_all creates its backup before making any change: when       *)
(* apply_all returns, the snapshot holds the TCP globals, the selected     *)
(* interface's DNS configuration and the power scheme the host had before  *)
(* apply_all issued its first mutating command; the captures of the nested *)
(* apply_dns_mode and set_power_plan do not replace them.                  *)
(***************************************************************************)
AppliedAll(n) == hist[n].call.op = "apply_all" /\ hist[n].call.fault = "none"

\* what the three probes read in the world apply_all started in
CapturedBefore(n) == ProbeData(PreWorld(n), hist[n].call.iface, "none")

C32_ApplyAllSnapshotIsPreChange ==
  \A n \in 1..Len(hist) :
    AppliedAll(n) => PostFile(n) = Snapshot(CapturedBefore(n))

(***************************************************************************)
(* C33.  No rollback and no early stop inside a command sequence: in       *)
(* apply_tcp_tweaks, set_low_latency_mode, apply_dns_mode,                 *)
(* restore_from_backup and repair_network_stack a command that fails or    *)
(* times out triggers no compensating command, and every later command of  *)
(* the sequence is still issued, in its fixed order: the commands issued   *)
(* are those issued when every command succeeds.                           *)
(***************************************************************************)
SequenceOps ==
  {"apply_tcp_tweaks", "set_low_latency_mode", "apply_dns_mode",
   "restore_from_backup", "repair_network_stack"}

\* the world operation n started in, on a host that carries out every command
Obedient(n) == [PreWorld(n) EXCEPT !.refuse = FALSE, !.admin = TRUE]

\* the commands operation n issues in world w
SequenceOf(n, w) ==
  CASE hist[n].call.op = "apply_tcp_tweaks" ->
         apply_tcp_tweaks(w, hist[n].call.a, hist[n].call.b, "none").w.trace
    [] hist[n].call.op = "set_low_latency_mode" ->
         set_low_latency_mode(w, hist[n].call.a, hist[n].call.b, "none").w.trace
    [] hist[n].call.op = "apply_dns_mode" ->
         apply_dns_mode(w, hist[n].call.a, hist[n].call.iface, "none").w.trace
    [] hist[n].call.op = "restore_from_backup" -> restore_from_backup(w).w.trace
    [] OTHER -> repair_network_stack(w).w.trace

\* a command of one of the sequences failed
SequenceFailed(n) == CommandFailed(n) /\ hist[n].call.op \in SequenceOps

C33_NoRollbackNoEarlyStop ==
  \A n \in 1..Len(hist) :
    SequenceFailed(n) => hist[n].trace = SequenceOf(n, Obedient(n))

\* a restore whose commands the host refused one after the other: all of
\* the snapshot's commands were issued and the host is as it was
C33_Witness ==
  /\ Len(hist) = 2
  /\ admin
  /\ hist[1].call.op = "backup_settings"
  /\ SequenceFailed(2)
  /\ hist[2].call.op = "restore_from_backup"
  /\ Len(Mutating(hist[2].trace)) >= 4
  /\ Post(2) = hist[2].pre

(***************************************************************************)
(* C34.  At most one page-slide animation is in progress at any time: a    *)
(* switch_tab or slide_to request that arrives while `animating` is true   *)
(* is ignored and changes neither current_page, nor the highlighted tab    *)
(* button, nor the running animation; a switch_tab to the current page or  *)
(* to an unknown page is a no-op as well.                                  *)
(***************************************************************************)
\* the last event was a request
Requested == vals.ev.fn \in {"switch_tab", "slide_to"}

\* the last event left current_page, the lock, the highlight and the pending
\* callbacks as they were
Ignored == Tabs = vals.pre

C34_OneAnimationAtATime ==
  /\ Cardinality(vals.timers) <= 1
  /\ vals.timers # {} => vals.animating
  /\ (Requested /\ vals.pre.animating) => Ignored
  /\ (vals.ev.fn = "switch_tab"
        /\ (vals.ev.name = vals.pre.current_page \/ vals.ev.name \notin pages))
       => Ignored

\* a tab button pressed in the middle of a slide to another page
C34_Witness ==
  /\ vals.ev.fn = "switch_tab"
  /\ vals.ev.name \in pages
  /\ vals.ev.name # vals.pre.current_page
  /\ vals.pre.animating
  /\ \E t \in vals.timers : t.i = 9 /\ t.new_name # vals.ev.name
  /\ Ignored

(***************************************************************************)
(* C35.  The animation lock is always released: every slide_to that sets   *)
(* `animating` to true eventually resets it to false (after the last step, *)
(* or on an error in the setup or in a step), and whenever `animating` is  *)
(* false current_page is the tab whose button is highlighted.  Only the    *)
(* runs in which every slide started from a tab button are looked at.      *)
(***************************************************************************)
C35_LockAlwaysReleased ==
  /\ vals.animating ~> ~vals.animating
  /\ [](~vals.direct /\ ~vals.animating => vals.current_page = vals.active)

====
